---------------------------- MODULE Spec2Model ----------------------------
(***************************************************************************)
(* A model of the resilience core of megaeth-rpc-tester:                   *)
(*   - rpc_tester/circuit_breaker.py : CircuitBreaker and                  *)
(*     AdaptiveCircuitBreaker, called by concurrent asyncio tasks;         *)
(*   - rpc_tester/core.py : the retry loop of RPCTester._make_rpc_request, *)
(*     the semaphore of test_endpoint and calculate_statistics;            *)
(*   - rpc_tester/circuit_breaker.py : BulkheadPattern;                    *)
(*   - rpc_tester/rate_limiter.py : TokenBucketRateLimiter,                *)
(*     SlidingWindowRateLimiter and PerEndpointRateLimiter;                *)
(*   - rpc_tester/utils.py and statistics.py : the percentiles;            *)
(*   - rpc_tester/core.py : the batch of RPCTester.test_endpoint;          *)
(*   - rpc_tester/rate_limiter.py : AdaptiveRateLimiter.                   *)
(* The components do not share state; each specification below runs one    *)
(* of them and leaves the others as constructed.                           *)
(*                                                                         *)
(* asyncio tasks are cooperatively scheduled: a task runs without          *)
(* interruption between two suspension points.  In the breaker the only    *)
(* suspension point is `await func(...)`: asyncio.Lock.acquire() returns   *)
(* without yielding when the lock is free, and the lock is never held      *)
(* across a suspension, so every `async with self._lock` block is one      *)
(* atomic step.  One action therefore models one uninterrupted run of a    *)
(* task: the admission part of call(), and the completion part (the        *)
(* function's result followed by _on_success / _on_failure).               *)
(***************************************************************************)
EXTENDS Integers, Sequences, FiniteSets, TLC

VARIABLES
    \* ---- circuit breaker (circuit_breaker.py) ----
    adaptive,            \* TRUE: the object is an AdaptiveCircuitBreaker
    config,              \* CircuitBreakerConfig
    state,               \* CircuitState
    failure_count,
    success_count,
    last_failure_time,   \* None or the clock value of the last failure
    half_open_calls,
    recent_calls,        \* AdaptiveCircuitBreaker.recent_calls (<<>> otherwise)
    now,                 \* time.time()
    pc,                  \* per caller: "idle" | "func" (awaiting func)
    last_op,             \* history: the operation that took the last step
    calls_made,          \* history: calls admitted by the adaptive breaker
    trial,               \* per caller: its call in flight was admitted in HALF_OPEN
    consec,              \* history: failures recorded since the last recorded success
    half_open_successes, \* history: successes recorded since HALF_OPEN was entered
    \* ---- retry loop (core.py, _make_rpc_request) ----
    retry_attempts,      \* config.retry_attempts
    retry_delay,         \* config.retry_delay
    rpc,                 \* position of the request: "idle" | "loop" | "sleep" | "done"
    retry,               \* the loop variable
    status_code,         \* local status_code
    error,               \* local error (the kind of the last error, or None)
    result,              \* the TestResult returned (NoResult before)
    dispatches,          \* history: session.post calls made
    sleeps,              \* history: the delays slept, in order
    attempts,            \* history: what each dispatch produced, in order
    last_event,          \* history: "none" | "dispatch" | "sleep"
    \* ---- concurrency limit (core.py test_endpoint, BulkheadPattern) ----
    bulkhead,            \* TRUE: the gate is a BulkheadPattern
    max_concurrent,      \* config.concurrent_requests / max_concurrent
    semaphore,           \* the free slots of the asyncio.Semaphore
    slot,                \* per request: "new" | "waiting" | "holding" | "done" | "rejected"
                         \* ("none": the batch has no such request)
    active_calls,        \* BulkheadPattern.active_calls
    total_calls,         \* BulkheadPattern.total_calls
    rejected_calls,      \* BulkheadPattern.rejected_calls
    \* ---- token bucket (rate_limiter.py, TokenBucketRateLimiter) ----
    burst_size,          \* self.burst_size, in tokens
    period,              \* 1 / self.rate: the clock ticks that refill one token
    tokens,              \* self.tokens, in units of 1/period token (one tick's refill)
    since_update,        \* time.time() - self.last_update, in ticks
    lock,                \* self.lock: the holder, then the waiters in order
    acquirers,           \* per task: its position in acquire(), the tokens it
                         \* asked for, the ticks left of its asyncio.sleep
    interval,            \* history: ticks passed and tokens granted since a
                         \* stopwatch was started (test_integration.py line 274)
    \* ---- sliding window (rate_limiter.py, SlidingWindowRateLimiter) ----
    window_size,         \* self.window_size, in ticks
    window_limit,        \* self.rate * self.window_size, in half requests
    requests,            \* self.requests: the age in ticks of each timestamp
    window_lock,         \* self.lock: the holder, then the waiters in order
    window_tasks,        \* per task: its position in acquire() and the ticks
                         \* left of its asyncio.sleep
    admitted,            \* history: the age of every call admitted within
                         \* the last window_size ticks
    \* ---- per endpoint limiter (rate_limiter.py, PerEndpointRateLimiter) ----
    default_rate,        \* self.default_rate, in tokens per tick
    custom_rates,        \* self.custom_rates: url -> rate (None: no entry)
    limiters,            \* self.limiters: url -> limiter instance (None: no entry)
    buckets,             \* every TokenBucketRateLimiter created so far, in
                         \* order of creation; an instance is its index
    endpoint_tasks,      \* per task: position in acquire(url), url, and the
                         \* local `limiter`
    used,                \* history: the urls acquire() was called for
    \* ---- statistics (core.py calculate_statistics, utils.py) ----
    results,             \* RPCTester.results: the recorded TestResults
    stats,               \* what the last calculate_statistics(url, method) returned
    \* ---- batch (core.py, test_endpoint) ----
    num_requests,        \* config.num_requests
    batch,               \* the call of test_endpoint in progress: its position
                         \* ("idle": none) and its (url, method) pair
    outcomes,            \* per request task: what gather holds for it
    returned,            \* what the last call of test_endpoint returned or raised
    \* ---- adaptive limiter (rate_limiter.py, AdaptiveRateLimiter) ----
    current_rate,        \* self.current_rate, in RateDenominator-ths of a
                         \* request per second (as min_rate and max_rate)
    min_rate,            \* self.min_rate
    max_rate,            \* self.max_rate
    consecutive_successes,
    consecutive_errors,
    bucket,              \* self.limiter: the TokenBucketRateLimiter in use
    reported             \* history: the last operation, and the successes and
                         \* the ordinary errors reported in a row up to now

cbVars == <<adaptive, config, state, failure_count, success_count,
            last_failure_time, half_open_calls, recent_calls, now, pc,
            last_op, calls_made, trial, consec, half_open_successes>>
rtVars == <<retry_attempts, retry_delay, rpc, retry, status_code, error,
            result, dispatches, sleeps, attempts, last_event>>
clVars == <<bulkhead, max_concurrent, semaphore, slot, active_calls,
            total_calls, rejected_calls>>
tbVars == <<burst_size, period, tokens, since_update, lock, acquirers, interval>>
swVars == <<window_size, window_limit, requests, window_lock, window_tasks,
            admitted>>
peVars == <<default_rate, custom_rates, limiters, buckets, endpoint_tasks, used>>
stVars == <<results, stats>>
btVars == <<num_requests, batch, outcomes, returned>>
arVars == <<current_rate, min_rate, max_rate, consecutive_successes,
            consecutive_errors, bucket, reported>>
vars == <<cbVars, rtVars, clVars, tbVars, swVars, peVars, stVars, btVars, arVars>>

\* what the operations of one component leave alone: the other components
otherThanCB == <<rtVars, clVars, tbVars, swVars, peVars,
                stVars, btVars, arVars>>
otherThanRT == <<cbVars, clVars, tbVars, swVars, peVars,
                stVars, btVars, arVars>>
otherThanCL == <<cbVars, rtVars, tbVars, swVars, peVars,
                stVars, btVars, arVars>>
otherThanTB == <<cbVars, rtVars, clVars, swVars, peVars,
                stVars, btVars, arVars>>
otherThanSW == <<cbVars, rtVars, clVars, tbVars, peVars,
                stVars, btVars, arVars>>
otherThanPE == <<cbVars, rtVars, clVars, tbVars, swVars,
                stVars, btVars, arVars>>
otherThanST == <<cbVars, rtVars, clVars, tbVars, swVars,
                peVars, btVars, arVars>>
\* a batch uses the semaphore (clVars) and RPCTester.results (stVars)
otherThanBT == <<cbVars, rtVars, tbVars, swVars, peVars, arVars>>
otherThanAR == <<cbVars, rtVars, clVars, tbVars, swVars,
                peVars, stVars, btVars>>

-----------------------------------------------------------------------------
(* Bounds of the model *)
NumCallers == 3
MaxTime == 3
MaxAdaptiveCalls == 10
AdaptiveCallers == 2
MaxFailureThreshold == 2
MaxSuccessThreshold == 2
MaxHalfOpenCalls == 2
MaxRetryAttempts == 3
MaxRetryDelay == 2
NumRequests == 4
MaxConcurrent == 3
NumAcquirers == 2
MaxBurst == 2
MaxPeriod == 2
MaxInterval == 4
MaxWindow == 2
MaxWindowLimit == 3
MaxAdmitted == 3
NumUrls == 2
MaxRate == 2
MaxBuckets == 3
NumPairs == 2
MaxResults == 3
MaxLatency == 3
MaxBatchRequests == 3
MaxBatchResults == 4
MaxAdaptiveRate == 4
MaxSuccessRun == 20
MaxErrorRun == 6

Callers == 1..NumCallers

-----------------------------------------------------------------------------
(* circuit_breaker.py *)

CLOSED == "closed"
OPEN == "open"
HALF_OPEN == "half_open"
CircuitState == {CLOSED, OPEN, HALF_OPEN}

None == -1

\* CircuitBreakerConfig.timeout, in clock ticks
OpenTimeout == 1
\* AdaptiveCircuitBreaker.window_size
WindowSize == 10
\* "Minimum calls before adapting"
MinCallsBeforeAdapting == 10

CircuitBreakerConfig ==
    [failure_threshold : 1..MaxFailureThreshold,
     success_threshold : 1..MaxSuccessThreshold,
     timeout : {OpenTimeout},
     half_open_max_calls : 1..MaxHalfOpenCalls]

\* The configurations explored.  The plain breaker is run under every
\* configuration within the bounds; the adaptive breaker, whose window has to
\* fill up to MinCallsBeforeAdapting outcomes, under the largest one only.
Configurations(isAdaptive) ==
    IF isAdaptive
    THEN {cfg \in CircuitBreakerConfig :
             /\ cfg.failure_threshold = MaxFailureThreshold
             /\ cfg.success_threshold = MaxSuccessThreshold
             /\ cfg.half_open_max_calls = MaxHalfOpenCalls}
    ELSE CircuitBreakerConfig

\* CircuitBreaker.__init__ / AdaptiveCircuitBreaker.__init__
InitBreaker ==
    /\ config \in Configurations(adaptive)
    /\ state = CLOSED
    /\ failure_count = 0
    /\ success_count = 0
    /\ last_failure_time = None
    /\ half_open_calls = 0
    /\ recent_calls = <<>>
    /\ now = 0
    /\ pc = [c \in Callers |-> "idle"]
    /\ last_op = [op |-> "init", caller |-> 0]
    /\ calls_made = 0
    /\ trial = [c \in Callers |-> FALSE]
    /\ consec = 0
    /\ half_open_successes = 0

ShouldAttemptResetAlways == last_failure_time # None

\* CircuitBreaker._should_attempt_reset
ShouldAttemptReset ==
    IF last_failure_time = None
    THEN FALSE
    ELSE now - last_failure_time >= config.timeout

FailureThresholdExceeded(n) == n > config.failure_threshold

\* _on_failure: `self.failure_count >= self.config.failure_threshold`
FailureThresholdReached(n) == n >= config.failure_threshold

SuccessThresholdAny(n) == n >= 1

\* _on_success: `self.success_count >= self.config.success_threshold`
SuccessThresholdReached(n) == n >= config.success_threshold

\* recent_calls.append(x); if len(recent_calls) > window_size: recent_calls.pop(0)
Record(calls, x) ==
    LET appended == Append(calls, x)
    IN IF Len(appended) > WindowSize THEN Tail(appended) ELSE appended

\* sum(1 for x in recent_calls if not x)
Failures(calls) == Cardinality({i \in 1..Len(calls) : ~calls[i]})

\* len(recent_calls) >= 10 and error_rate > 0.5
ErrorRateTooHigh(calls) ==
    /\ Len(calls) >= MinCallsBeforeAdapting
    /\ 2 * Failures(calls) > Len(calls)

RejectCounted(c, st, hoc) ==
    /\ state' = st
    /\ half_open_calls' = hoc
    /\ failure_count' = failure_count + 1
    /\ last_failure_time' = now
    /\ last_op' = [op |-> "reject", caller |-> c]
    /\ UNCHANGED <<success_count, recent_calls, pc, trial, consec, calls_made>>

\* call(): `raise CircuitBreakerError(...)` inside the lock, before func is
\* awaited; st and hoc are the state and trial counter _check_state left.
Reject(c, st, hoc) ==
    /\ state' = st
    /\ half_open_calls' = hoc
    /\ last_op' = [op |-> "reject", caller |-> c]
    /\ UNCHANGED <<failure_count, success_count, last_failure_time,
                   recent_calls, pc, trial, consec, calls_made>>

\* call(): the call passes the lock block and awaits func
Admit(c, st, hoc) ==
    /\ state' = st
    /\ half_open_calls' = IF st = HALF_OPEN THEN hoc + 1 ELSE hoc
    /\ pc' = [pc EXCEPT ![c] = "func"]
    /\ trial' = [trial EXCEPT ![c] = (st = HALF_OPEN)]
    /\ last_op' = [op |-> "admit", caller |-> c]
    /\ calls_made' = IF adaptive THEN calls_made + 1 ELSE calls_made
    /\ UNCHANGED <<failure_count, success_count, last_failure_time,
                   recent_calls, consec>>

\* CircuitBreaker.call, lines 71-84 (with _check_state inlined): caller c
\* enters call() and is admitted or rejected.
Call(c) ==
    /\ pc[c] = "idle"
    /\ adaptive => c <= AdaptiveCallers /\ calls_made < MaxAdaptiveCalls
    /\ LET toHalfOpen == state = OPEN /\ ShouldAttemptReset
           st == IF toHalfOpen THEN HALF_OPEN ELSE state
           hoc == IF toHalfOpen THEN 0 ELSE half_open_calls
       IN /\ half_open_successes' = IF toHalfOpen THEN 0 ELSE half_open_successes
          /\ IF st = OPEN
             THEN Reject(c, st, hoc)
             ELSE IF st = HALF_OPEN /\ hoc >= config.half_open_max_calls
                  THEN Reject(c, st, hoc)
                  ELSE Admit(c, st, hoc)
    /\ UNCHANGED <<adaptive, config, now, otherThanCB>>

\* func returned: CircuitBreaker._on_success, then (adaptive)
\* AdaptiveCircuitBreaker.call's recent_calls.append(True)
FuncReturn(c) ==
    /\ pc[c] = "func"
    /\ failure_count' = 0
    /\ IF state = HALF_OPEN
       THEN IF SuccessThresholdReached(success_count + 1)
            THEN state' = CLOSED /\ success_count' = 0
            ELSE state' = state /\ success_count' = success_count + 1
       ELSE UNCHANGED <<state, success_count>>
    /\ recent_calls' = IF adaptive THEN Record(recent_calls, TRUE) ELSE recent_calls
    /\ pc' = [pc EXCEPT ![c] = "idle"]
    /\ last_op' = [op |-> "return", caller |-> c]
    /\ trial' = [trial EXCEPT ![c] = FALSE]
    /\ consec' = 0
    /\ half_open_successes' =
          IF state = HALF_OPEN THEN half_open_successes + 1 ELSE half_open_successes
    /\ UNCHANGED <<adaptive, config, last_failure_time, half_open_calls, now,
                   calls_made, otherThanCB>>

\* CircuitBreaker._on_failure
BaseOnFailure ==
    /\ failure_count' = failure_count + 1
    /\ last_failure_time' = now
    /\ IF state = HALF_OPEN
       THEN state' = OPEN /\ success_count' = 0
       ELSE IF FailureThresholdReached(failure_count + 1)
            THEN state' = OPEN /\ UNCHANGED success_count
            ELSE UNCHANGED <<state, success_count>>

\* func raised: self._on_failure() (AdaptiveCircuitBreaker._on_failure for the
\* adaptive breaker, which returns early when the error rate is above 50%),
\* then the exception is re-raised to the caller.
FuncRaise(c) ==
    /\ pc[c] = "func"
    /\ IF adaptive
       THEN LET calls == Record(recent_calls, FALSE)
            IN /\ recent_calls' = calls
               /\ IF ErrorRateTooHigh(calls)
                  THEN /\ state' = OPEN
                       /\ last_failure_time' = now
                       /\ UNCHANGED <<failure_count, success_count>>
                  ELSE BaseOnFailure
       ELSE BaseOnFailure /\ UNCHANGED recent_calls
    /\ pc' = [pc EXCEPT ![c] = "idle"]
    /\ last_op' = [op |-> "raise", caller |-> c]
    /\ trial' = [trial EXCEPT ![c] = FALSE]
    /\ consec' = consec + 1
    /\ UNCHANGED <<adaptive, config, half_open_calls, now, half_open_successes,
                   calls_made, otherThanCB>>

\* CircuitBreaker.reset (synchronous, called from outside the tasks)
Reset ==
    /\ state' = CLOSED
    /\ failure_count' = 0
    /\ success_count' = 0
    /\ last_failure_time' = None
    /\ half_open_calls' = 0
    /\ consec' = 0
    /\ half_open_successes' = 0
    /\ last_op' = [op |-> "reset", caller |-> 0]
    /\ UNCHANGED <<adaptive, config, recent_calls, now, pc, trial, calls_made, otherThanCB>>

\* time.time() advances
Tick ==
    /\ now < MaxTime
    /\ now' = now + 1
    /\ last_op' = [op |-> "tick", caller |-> 0]
    /\ UNCHANGED <<adaptive, config, state, failure_count, success_count,
                   last_failure_time, half_open_calls, recent_calls, pc,
                   trial, calls_made, consec, half_open_successes, otherThanCB>>

-----------------------------------------------------------------------------
(* core.py: RPCTester._make_rpc_request *)

\* What one session.post can produce:
\*   "result"       HTTP 200, JSON body without "error"
\*   "rpc_error"    HTTP 200, JSON body with a top-level "error"
\*   "bad_json"     HTTP 200, resp.json() raises
\*   "http"         a status other than 200
\*   "timeout"      asyncio.TimeoutError
\*   "client_error" aiohttp.ClientError
\*   "exception"    any other Exception
HttpStatuses == {204, 404, 500, 503}
Responses ==
    [kind : {"result", "rpc_error", "bad_json"}, status : {200}]
    \cup [kind : {"http"}, status : HttpStatuses]
    \cup [kind : {"timeout", "client_error", "exception"}, status : {None}]

\* TestResult (url, method and latency left out; response_data is "value"
\* for the "result" member of the body and "none" for None)
TestResult(ok, err, code, att, data) ==
    [success |-> ok, error |-> err, status_code |-> code, attempt |-> att,
     response_data |-> data]

NoResult == TestResult(FALSE, "none", None, 0, "none")

\* the locals of lines 140-145, at the head of the for loop
RetryStart ==
    /\ rpc = "loop"
    /\ retry = 0
    /\ status_code = None
    /\ error = "none"
    /\ result = NoResult
    /\ dispatches = 0
    /\ sleeps = <<>>
    /\ attempts = <<>>
    /\ last_event = "none"

\* no request is being made
RetryIdle ==
    /\ retry_attempts = 0
    /\ retry_delay = 0
    /\ rpc = "idle"
    /\ retry = 0
    /\ status_code = None
    /\ error = "none"
    /\ result = NoResult
    /\ dispatches = 0
    /\ sleeps = <<>>
    /\ attempts = <<>>
    /\ last_event = "none"

ShouldRetryStatusFrom400(status, r) == status >= 400 /\ r < retry_attempts - 1

\* line 193: `resp.status >= 500 and retry < self.config.retry_attempts - 1`
ShouldRetryStatus(status, r) == status >= 500 /\ r < retry_attempts - 1

ShouldRetryExceptionAlways(r) == r < retry_attempts

\* lines 207, 221, 234: `retry < self.config.retry_attempts - 1`
ShouldRetryException(r) == r < retry_attempts - 1

RetryDelayConstant(r) == retry_delay

\* `self.config.retry_delay * (2 ** retry)`
RetryDelay(r) == retry_delay * (2 ^ r)

AttemptOfSuccessZeroBased(r) == r

\* line 178: `attempt=retry + 1`
AttemptOfSuccess(r) == r + 1

\* line 253: `attempt=self.config.retry_attempts`
AttemptOfFailure == retry_attempts

\* the error local after a dispatch that did not return
ErrorOf(resp) ==
    CASE resp.kind = "http" -> "http"
      [] resp.kind = "timeout" -> "timeout"
      [] resp.kind = "client_error" -> "connection"
      [] resp.kind = "bad_json" -> "unexpected"
      [] OTHER -> "unexpected"

HasErrorFieldNever(resp) == FALSE

\* line 161: `"error" in data`
HasErrorField(resp) == resp.kind = "rpc_error"

\* lines 242-254: the return after the loop
ReturnFailure(err, code) ==
    /\ result' = TestResult(FALSE, IF err = "none" THEN "unknown" ELSE err,
                            code, AttemptOfFailure, "none")
    /\ rpc' = "done"

\* One iteration of the for loop up to its return, break or sleep:
\* session.post, the classification of what came back, and for a break the
\* return that follows the loop.
Dispatch(resp) ==
    /\ rpc = "loop"
    /\ retry < retry_attempts
    /\ dispatches' = dispatches + 1
    /\ attempts' = Append(attempts, resp)
    /\ last_event' = "dispatch"
    /\ status_code' = IF resp.status = None THEN status_code ELSE resp.status
    /\ IF resp.kind \in {"result", "rpc_error"}
       THEN \* lines 161-179
            /\ error' = IF HasErrorField(resp) THEN "rpc" ELSE error
            /\ result' = TestResult(~HasErrorField(resp),
                                    IF HasErrorField(resp) THEN "rpc" ELSE error,
                                    status_code', AttemptOfSuccess(retry),
                                    IF HasErrorField(resp) THEN "none" ELSE "value")
            /\ rpc' = "done"
       ELSE /\ error' = ErrorOf(resp)
            /\ IF resp.kind = "http"
               THEN \* lines 180-200
                    IF ShouldRetryStatus(resp.status, retry)
                    THEN rpc' = "sleep" /\ UNCHANGED result
                    ELSE ReturnFailure(error', status_code')
               ELSE \* lines 202-240 (bad_json is raised as InvalidResponseError
                    \* and caught by `except Exception`)
                    IF ShouldRetryException(retry)
                    THEN rpc' = "sleep" /\ UNCHANGED result
                    ELSE ReturnFailure(error', status_code')
    /\ UNCHANGED <<retry_attempts, retry_delay, retry, sleeps, otherThanRT>>

\* `await asyncio.sleep(retry_delay)` and `continue`
Sleep ==
    /\ rpc = "sleep"
    /\ sleeps' = Append(sleeps, RetryDelay(retry))
    /\ last_event' = "sleep"
    /\ retry' = retry + 1
    /\ rpc' = "loop"
    /\ UNCHANGED <<retry_attempts, retry_delay, status_code, error, result,
                   dispatches, attempts, otherThanRT>>

\* range(retry_attempts) is exhausted at the head of the loop
LoopExhausted ==
    /\ rpc = "loop"
    /\ retry >= retry_attempts
    /\ ReturnFailure(error, status_code)
    /\ UNCHANGED <<retry_attempts, retry_delay, retry, status_code, error,
                   dispatches, sleeps, attempts, last_event, otherThanRT>>

-----------------------------------------------------------------------------
(* core.py test_endpoint (the semaphore) and circuit_breaker.py BulkheadPattern *)

\* the tasks of one batch: `for _ in range(self.config.num_requests)`
Requests == 1..NumRequests

\* asyncio.Semaphore(max_concurrent) and the counters of BulkheadPattern.__init__;
\* no task has run yet
InitLimiter ==
    /\ semaphore = max_concurrent
    /\ slot = [t \in Requests |-> "new"]
    /\ active_calls = 0
    /\ total_calls = 0
    /\ rejected_calls = 0

\* no batch is run
LimiterIdle ==
    /\ bulkhead = FALSE
    /\ max_concurrent = 1
    /\ InitLimiter

\* `self.semaphore.locked()`: no slot is free
SemaphoreLocked == semaphore = 0

\* core.py line 280: the task enters `async with semaphore`.  It takes a
\* slot if one is free and waits otherwise.
SlotAcquire(t) ==
    /\ ~bulkhead
    /\ slot[t] = "new"
    /\ IF SemaphoreLocked
       THEN slot' = [slot EXCEPT ![t] = "waiting"] /\ UNCHANGED semaphore
       ELSE slot' = [slot EXCEPT ![t] = "holding"] /\ semaphore' = semaphore - 1
    /\ UNCHANGED <<bulkhead, max_concurrent, active_calls, total_calls,
                   rejected_calls, otherThanCL>>

\* a waiting task is resumed with a slot that was released (which waiter
\* gets it is left open)
SlotWake(t) ==
    /\ ~bulkhead
    /\ slot[t] = "waiting"
    /\ ~SemaphoreLocked
    /\ slot' = [slot EXCEPT ![t] = "holding"]
    /\ semaphore' = semaphore - 1
    /\ UNCHANGED <<bulkhead, max_concurrent, active_calls, total_calls,
                   rejected_calls, otherThanCL>>

\* core.py line 281: _make_rpc_request is over and `async with` is left
SlotRelease(t) ==
    /\ ~bulkhead
    /\ slot[t] = "holding"
    /\ slot' = [slot EXCEPT ![t] = "done"]
    /\ semaphore' = semaphore + 1
    /\ UNCHANGED <<bulkhead, max_concurrent, active_calls, total_calls,
                   rejected_calls, otherThanCL>>

\* BulkheadPattern.call up to `await func(...)`: lines 312-322.  Nothing
\* suspends between locked() and the acquire of `async with`.
BulkheadCall(t) ==
    /\ bulkhead
    /\ slot[t] = "new"
    /\ total_calls' = total_calls + 1
    /\ IF SemaphoreLocked
       THEN /\ rejected_calls' = rejected_calls + 1
            /\ slot' = [slot EXCEPT ![t] = "rejected"]
            /\ UNCHANGED <<semaphore, active_calls>>
       ELSE /\ semaphore' = semaphore - 1
            /\ active_calls' = active_calls + 1
            /\ slot' = [slot EXCEPT ![t] = "holding"]
            /\ UNCHANGED rejected_calls
    /\ UNCHANGED <<bulkhead, max_concurrent, otherThanCL>>

\* BulkheadPattern.call from the end of func (result or exception): the
\* finally of line 325 and the exit of `async with`
BulkheadReturn(t) ==
    /\ bulkhead
    /\ slot[t] = "holding"
    /\ active_calls' = active_calls - 1
    /\ semaphore' = semaphore + 1
    /\ slot' = [slot EXCEPT ![t] = "done"]
    /\ UNCHANGED <<bulkhead, max_concurrent, total_calls, rejected_calls,
                   otherThanCL>>

-----------------------------------------------------------------------------
(* rate_limiter.py: TokenBucketRateLimiter *)

(***************************************************************************)
(* Time is counted in clock ticks and the rate is one token per `period`   *)
(* ticks, so that the bucket is exact in integers: self.tokens and every   *)
(* amount of tokens is held in units of 1/period token, the refill of one  *)
(* tick.  acquire() keeps the lock from its first line to its return,      *)
(* asyncio.sleep included; asyncio.Lock serves its waiters in order.       *)
(***************************************************************************)
Acquirers == 1..NumAcquirers

Min(a, b) == IF a <= b THEN a ELSE b
Max(a, b) == IF a >= b THEN a ELSE b

\* n tokens in units of 1/period token
Units(n) == n * period

NotAcquiring == [pc |-> "idle", tokens |-> 0, wait_time |-> 0]

\* the most a stopwatch counts of granted tokens: more than a bucket within
\* its rate can grant in MaxInterval ticks
MaxGranted == MaxBurst + MaxInterval + 2

\* TokenBucketRateLimiter.__init__ (lines 39-43), with burst_size given
InitBucket ==
    /\ tokens = Units(burst_size)
    /\ since_update = 0
    /\ lock = <<>>
    /\ acquirers = [t \in Acquirers |-> NotAcquiring]

\* the clock ticks of a second: requests_per_second is TicksPerSecond / period
TicksPerSecond == 2

\* line 40 with burst_size None: int(requests_per_second)
DefaultBurstSize == TicksPerSecond \div period

\* no limiter is used
BucketIdle ==
    /\ burst_size = 1
    /\ period = 1
    /\ InitBucket
    /\ interval = [on |-> FALSE, ticks |-> 0, granted |-> 0]

RefillUncapped == tokens + since_update

\* lines 57-63: min(self.burst_size, self.tokens + elapsed * self.rate)
Refill == Min(Units(burst_size), tokens + since_update)

CanTakeStrictly(available, want) == available > want

\* line 66: `self.tokens >= tokens`
CanTake(available, want) == available >= want

ChargeNothing(available, want) == available

\* line 67: `self.tokens -= tokens`
Charge(available, want) == available - want

\* line 71: (tokens - self.tokens) / self.rate, in ticks
WaitTime(available, want) == want - available

\* the stopwatch after n tokens were granted
Granted(n) ==
    IF interval.on
    THEN [interval EXCEPT !.granted = Min(interval.granted + n, MaxGranted)]
    ELSE interval

LockReleasedToSleep(lk) == Tail(lk)

\* lines 54 and 72: the sleep is inside `async with self.lock`
LockWhileSleeping(lk) == lk

\* One pass of the `while True` body (lines 56-72) by task t, which asked
\* for n tokens and is at the head of lk: it returns, which releases the
\* lock, or goes to sleep holding it.
Iterate(t, n, lk) ==
    LET available == Refill
        want == Units(n)
    IN /\ since_update' = 0
       /\ IF CanTake(available, want)
          THEN /\ tokens' = Charge(available, want)
               /\ acquirers' = [acquirers EXCEPT ![t] = NotAcquiring]
               /\ lock' = Tail(lk)
               /\ interval' = Granted(n)
          ELSE /\ tokens' = available
               /\ acquirers' = [acquirers EXCEPT ![t] =
                     [pc |-> "sleep", tokens |-> n,
                      wait_time |-> WaitTime(available, want)]]
               /\ lock' = LockWhileSleeping(lk)
               /\ UNCHANGED interval

\* acquire(n) is called: with the lock free the task runs on into the loop,
\* otherwise it queues for the lock
Acquire(t, n) ==
    /\ acquirers[t].pc = "idle"
    /\ IF lock = <<>>
       THEN Iterate(t, n, <<t>>)
       ELSE /\ lock' = Append(lock, t)
            /\ acquirers' = [acquirers EXCEPT ![t] =
                  [pc |-> "lock", tokens |-> n, wait_time |-> 0]]
            /\ UNCHANGED <<tokens, since_update, interval>>
    /\ UNCHANGED <<burst_size, period, otherThanTB>>

\* acquire(n) called with no more than the bucket can ever hold
AcquireWithinBurst(t, n) == n <= burst_size /\ Acquire(t, n)

\* the lock was released and this task is the first waiter
LockGranted(t) ==
    /\ acquirers[t].pc = "lock"
    /\ Head(lock) = t
    /\ Iterate(t, acquirers[t].tokens, lock)
    /\ UNCHANGED <<burst_size, period, otherThanTB>>

\* asyncio.sleep(wait_time) is over (it may last longer than asked)
Wake(t) ==
    /\ acquirers[t].pc = "sleep"
    /\ acquirers[t].wait_time = 0
    /\ Iterate(t, acquirers[t].tokens, lock)
    /\ UNCHANGED <<burst_size, period, otherThanTB>>

\* one tick of time.time().  Past burst_size tokens' worth the elapsed time
\* makes no difference to line 60, and past MaxInterval the stopwatch stops.
TickBucket ==
    /\ since_update' = Min(since_update + 1, Units(burst_size))
    /\ acquirers' = [t \in Acquirers |->
          [acquirers[t] EXCEPT !.wait_time = Max(acquirers[t].wait_time - 1, 0)]]
    /\ interval' = IF interval.on
                   THEN [interval EXCEPT !.ticks = Min(interval.ticks + 1, MaxInterval)]
                   ELSE interval
    /\ UNCHANGED <<burst_size, period, tokens, lock, otherThanTB>>

\* test_integration.py line 274: `start = time.time()`, a stopwatch started
\* at any moment
StartInterval ==
    /\ interval' = [on |-> TRUE, ticks |-> 0, granted |-> 0]
    /\ UNCHANGED <<burst_size, period, tokens, since_update, lock, acquirers,
                   otherThanTB>>

-----------------------------------------------------------------------------
(* rate_limiter.py: SlidingWindowRateLimiter *)

(***************************************************************************)
(* A timestamp of self.requests is held as its age, now - timestamp, in    *)
(* ticks; an age past window_size stays at window_size + 1.  The product   *)
(* rate * window_size need not be whole: window_limit holds twice its      *)
(* value.                                                                  *)
(***************************************************************************)
NotInWindow == [pc |-> "idle", wait_time |-> 0]

\* line 111 negated: not `timestamp < now - self.window_size`
InWindow(age) == age <= window_size

\* lines 111-112: popleft while the oldest timestamp is outside the window
\* (the deque is in time order)
RemoveOld(reqs) == SelectSeq(reqs, InWindow)

\* line 115: `len(self.requests) < self.rate * self.window_size`
HasRoom(reqs) == 2 * Len(reqs) < window_limit

\* line 122: (oldest_request + self.window_size) - now
WindowWait(reqs) == window_size - reqs[1]

\* SlidingWindowRateLimiter.__init__ (lines 99-102)
InitWindow ==
    /\ requests = <<>>
    /\ window_lock = <<>>
    /\ window_tasks = [t \in Acquirers |-> NotInWindow]
    /\ admitted = <<>>

\* no limiter is used
WindowIdle ==
    /\ window_size = 1
    /\ window_limit = 2
    /\ InitWindow

\* One pass of the `while True` body (lines 108-126) by task t at the head
\* of lk.  It records the call and returns; or sleeps until the oldest
\* timestamp is window_size old; or, with that wait not positive, goes
\* round the loop again at once ("spin"); or, with nothing recorded and no
\* room, returns without recording (line 126).
WindowIterate(t, lk) ==
    LET kept == RemoveOld(requests)
    IN IF HasRoom(kept)
       THEN /\ requests' = Append(kept, 0)
            /\ admitted' = Append(admitted, 0)
            /\ window_tasks' = [window_tasks EXCEPT ![t] = NotInWindow]
            /\ window_lock' = Tail(lk)
       ELSE IF kept # <<>>
            THEN /\ requests' = kept
                 /\ window_tasks' = [window_tasks EXCEPT ![t] =
                       IF WindowWait(kept) > 0
                       THEN [pc |-> "sleep", wait_time |-> WindowWait(kept)]
                       ELSE [pc |-> "spin", wait_time |-> 0]]
                 /\ window_lock' = lk
                 /\ UNCHANGED admitted
            ELSE /\ requests' = kept
                 /\ admitted' = Append(admitted, 0)
                 /\ window_tasks' = [window_tasks EXCEPT ![t] = NotInWindow]
                 /\ window_lock' = Tail(lk)

\* acquire() is called: with the lock free the task runs on into the loop,
\* otherwise it queues for the lock
WindowAcquire(t) ==
    /\ window_tasks[t].pc = "idle"
    /\ Len(admitted) < MaxAdmitted
    /\ IF window_lock = <<>>
       THEN WindowIterate(t, <<t>>)
       ELSE /\ window_lock' = Append(window_lock, t)
            /\ window_tasks' = [window_tasks EXCEPT ![t] =
                  [pc |-> "lock", wait_time |-> 0]]
            /\ UNCHANGED <<requests, admitted>>
    /\ UNCHANGED <<window_size, window_limit, otherThanSW>>

\* the lock was released and this task is the first waiter
WindowLockGranted(t) ==
    /\ window_tasks[t].pc = "lock"
    /\ Head(window_lock) = t
    /\ WindowIterate(t, window_lock)
    /\ UNCHANGED <<window_size, window_limit, otherThanSW>>

\* asyncio.sleep(wait_time) is over, or the loop goes round without sleeping
WindowWake(t) ==
    /\ \/ window_tasks[t].pc = "sleep" /\ window_tasks[t].wait_time = 0
       \/ window_tasks[t].pc = "spin"
    /\ WindowIterate(t, window_lock)
    /\ UNCHANGED <<window_size, window_limit, otherThanSW>>

\* Every age grows by one tick
Older(ages) == [i \in 1..Len(ages) |-> Min(ages[i] + 1, window_size + 1)]

\* one tick of time.time()
TickWindow ==
    /\ requests' = Older(requests)
    /\ admitted' = RemoveOld(Older(admitted))
    /\ window_tasks' = [t \in Acquirers |->
          [window_tasks[t] EXCEPT !.wait_time = Max(window_tasks[t].wait_time - 1, 0)]]
    /\ UNCHANGED <<window_size, window_limit, window_lock, otherThanSW>>

-----------------------------------------------------------------------------
(* rate_limiter.py: PerEndpointRateLimiter *)

(***************************************************************************)
(* The manager's lock is never held across a suspension, so the block      *)
(* `async with self.lock` of acquire(url) is one step with what follows it *)
(* up to the first suspension inside limiter.acquire().  The buckets here  *)
(* have a whole rate in tokens per tick and the default burst size         *)
(* int(rate), and hand out single tokens; refilling them at every tick     *)
(* gives the tokens that lines 57-63 compute when next asked.              *)
(***************************************************************************)
Urls == 1..NumUrls

NoEndpoint == [pc |-> "idle", url |-> None, limiter |-> None]

\* TokenBucketRateLimiter(rate) as built by lines 160 and 172, for url
NewBucket(url, rate) == [url |-> url, rate |-> rate, tokens |-> rate]

\* PerEndpointRateLimiter.__init__ (lines 146-149)
InitEndpoints ==
    /\ limiters = [u \in Urls |-> None]
    /\ custom_rates = [u \in Urls |-> None]
    /\ buckets = <<>>
    /\ endpoint_tasks = [t \in Acquirers |-> NoEndpoint]
    /\ used = {}

\* no manager is used
EndpointsIdle ==
    /\ default_rate = 1
    /\ InitEndpoints

\* set_rate_limit(url, requests_per_second), lines 159-160
SetRateLimit(u, r) ==
    /\ Len(buckets) < MaxBuckets
    /\ custom_rates' = [custom_rates EXCEPT ![u] = r]
    /\ buckets' = Append(buckets, NewBucket(u, r))
    /\ limiters' = [limiters EXCEPT ![u] = Len(buckets) + 1]
    /\ UNCHANGED <<default_rate, endpoint_tasks, used, otherThanPE>>

\* line 171: self.custom_rates.get(url, self.default_rate)
RateFor(u) == IF custom_rates[u] # None THEN custom_rates[u] ELSE default_rate

\* the tasks suspended inside acquire() of instance i
WaitingOn(i) ==
    {t \in Acquirers : endpoint_tasks[t].pc = "waiting" /\ endpoint_tasks[t].limiter = i}

\* instance i of bs with one token taken (rate_limiter.py line 67)
TakeToken(bs, i) == [bs EXCEPT ![i].tokens = bs[i].tokens - 1]

\* acquire(url), lines 169-175, up to the return or the first suspension of
\* limiter.acquire(): the limiter is created if the url has none; the task
\* takes a token if the bucket is free and has one, and waits otherwise
EndpointAcquire(t, u) ==
    /\ endpoint_tasks[t].pc = "idle"
    /\ limiters[u] = None => Len(buckets) < MaxBuckets
    /\ used' = used \cup {u}
    /\ LET created == IF limiters[u] = None
                      THEN Append(buckets, NewBucket(u, RateFor(u)))
                      ELSE buckets
           limiter == IF limiters[u] = None THEN Len(buckets) + 1 ELSE limiters[u]
       IN /\ limiters' = [limiters EXCEPT ![u] = limiter]
          /\ IF created[limiter].tokens >= 1 /\ WaitingOn(limiter) = {}
             THEN /\ buckets' = TakeToken(created, limiter)
                  /\ endpoint_tasks' = [endpoint_tasks EXCEPT ![t] = NoEndpoint]
             ELSE /\ buckets' = created
                  /\ endpoint_tasks' = [endpoint_tasks EXCEPT ![t] =
                        [pc |-> "waiting", url |-> u, limiter |-> limiter]]
    /\ UNCHANGED <<default_rate, custom_rates, otherThanPE>>

\* limiter.acquire() resumes (its sleep is over or the bucket's lock is
\* handed over) and finds a token
EndpointWake(t) ==
    /\ endpoint_tasks[t].pc = "waiting"
    /\ buckets[endpoint_tasks[t].limiter].tokens >= 1
    /\ buckets' = TakeToken(buckets, endpoint_tasks[t].limiter)
    /\ endpoint_tasks' = [endpoint_tasks EXCEPT ![t] = NoEndpoint]
    /\ UNCHANGED <<default_rate, custom_rates, limiters, used, otherThanPE>>

\* one tick of time.time(): every bucket gains rate tokens up to its burst
\* size int(rate)
TickEndpoints ==
    /\ buckets' = [i \in 1..Len(buckets) |->
          [buckets[i] EXCEPT !.tokens = Min(buckets[i].rate,
                                            buckets[i].tokens + buckets[i].rate)]]
    /\ UNCHANGED <<default_rate, custom_rates, limiters, endpoint_tasks, used,
                   otherThanPE>>

-----------------------------------------------------------------------------
(* core.py RPCTester.calculate_statistics, utils.py calculate_statistics and
   calculate_percentile, statistics.py StatisticalAnalyzer.calculate_percentile *)

(***************************************************************************)
(* Latencies are whole milliseconds.  Python's statistics.quantiles with   *)
(* n=100 interpolates in hundredths, so every latency statistic is held    *)
(* in hundredths of a millisecond, which keeps the arithmetic exact.       *)
(***************************************************************************)
\* the (url, method) pairs that are tested
Pairs == 1..NumPairs

\* `statistics.quantiles(data, n=100)`: the number of intervals
QuantileCuts == 100

\* x milliseconds in hundredths
Hundredths(x) == x * QuantileCuts

\* A TestResult as test_endpoint records it (core.py lines 290-304) or as a
\* test stores it: a success with its latency, a failure of a raised task
\* (latency_ms=0) or a failure without latency (test_core.py line 86).
RecordedResults ==
    [pair : Pairs, success : {TRUE}, latency_ms : 1..MaxLatency]
    \cup [pair : Pairs, success : {FALSE}, latency_ms : {0, None}]

\* the data of test_percentile_calculation (test_core.py line 109) as the
\* successes of one pair
TenSamples ==
    [i \in 1..10 |-> [pair |-> 1, success |-> TRUE, latency_ms |-> 10 * i]]

RECURSIVE Insert(_, _)
\* seq, which is in ascending order, with x put in its place
Insert(x, seq) ==
    IF seq = <<>> THEN <<x>>
    ELSE IF x <= Head(seq) THEN <<x>> \o seq
    ELSE <<Head(seq)>> \o Insert(x, Tail(seq))

Unsorted(data) == data

RECURSIVE Sorted(_)
\* sorted(data)
Sorted(data) ==
    IF data = <<>> THEN <<>> ELSE Insert(Head(data), Sorted(Tail(data)))

RECURSIVE Sum(_)
Sum(data) == IF data = <<>> THEN 0 ELSE Head(data) + Sum(Tail(data))

\* statistics.quantiles(data, n=100)[i - 1], the default method "exclusive",
\* for len(data) >= 2: with m = len(data) + 1 the cut point lies at i*m/100,
\* clamped to the first and last pair of neighbours, which extrapolates
\* beyond them
Quantile(data, i) ==
    LET sorted == Sorted(data)
        ld == Len(data)
        m == ld + 1
        j == Max(1, Min(ld - 1, (i * m) \div QuantileCuts))
        delta == i * m - j * QuantileCuts
    IN sorted[j] * (QuantileCuts - delta) + sorted[j + 1] * delta

\* utils.py lines 88-90, the fallback: sorted_data[min(int(len * p), len - 1)]
PercentileFallback(data, p) ==
    LET sorted == Sorted(data)
        index == (Len(data) * p) \div 100
    IN Hundredths(sorted[Min(index, Len(data) - 1) + 1])

\* utils.calculate_percentile(data, p / 100) in hundredths: quantiles raises
\* StatisticsError for fewer than two data points
CalculatePercentile(data, p) ==
    IF data = <<>> THEN 0
    ELSE IF Len(data) >= 2 THEN Quantile(data, p)
    ELSE PercentileFallback(data, p)

\* StatisticalAnalyzer.calculate_percentile(data, p) in hundredths
\* (statistics.py lines 52-65), with k = (len - 1) * p / 100
AnalyzerPercentile(data, p) ==
    IF data = <<>> THEN 0
    ELSE LET sorted == Sorted(data)
             k100 == (Len(data) - 1) * p
             f == k100 \div 100
             frac == k100 % 100
         IN IF frac = 0
            THEN Hundredths(sorted[f + 1])
            ELSE sorted[f + 1] * (100 - frac) + sorted[f + 2] * frac

\* utils.calculate_statistics(values) for a non-empty list (lines 265-289);
\* median, std_dev, variance, p75 and p90 are left out
CalculateStatistics(values) ==
    [count |-> Len(values),
     mean |-> [num |-> Sum(values), den |-> Len(values)],
     min |-> Hundredths(Sorted(values)[1]),
     max |-> Hundredths(Sorted(values)[Len(values)]),
     p50 |-> CalculatePercentile(values, 50),
     p95 |-> CalculatePercentile(values, 95),
     p99 |-> CalculatePercentile(values, 99)]

\* core.py lines 363-366
EndpointResults(pair) == SelectSeq(results, LAMBDA r : r.pair = pair)

SuccessfulAll(rs) == rs

\* line 372
Successful(rs) == SelectSeq(rs, LAMBDA r : r.success)

FailedWithLatency(rs) == SelectSeq(rs, LAMBDA r : ~r.success /\ r.latency_ms # None)

\* line 373
Failed(rs) == SelectSeq(rs, LAMBDA r : ~r.success)

LatenciesOrZero(rs) ==
    [i \in 1..Len(rs) |-> IF rs[i].latency_ms = None THEN 0 ELSE rs[i].latency_ms]

\* line 375: the latencies of the successes that have one
Latencies(rs) ==
    LET with == SelectSeq(Successful(rs), LAMBDA r : r.latency_ms # None)
    IN [i \in 1..Len(with) |-> with[i].latency_ms]

NoStats == [pair |-> None]

\* RPCTester.calculate_statistics(url, method), lines 363-416, of a tester
\* whose self.results is rs (errors are left out; success_rate is held as
\* a fraction); None when the pair has no results
StatisticsOf(rs, pair) ==
    LET endpoint_results == SelectSeq(rs, LAMBDA r : r.pair = pair)
        latencies == Latencies(endpoint_results)
    IN IF endpoint_results = <<>> THEN NoStats
       ELSE IF latencies = <<>>
       THEN [pair |-> pair,
             total_requests |-> Len(endpoint_results),
             successful_requests |-> 0,
             failed_requests |-> Len(Failed(endpoint_results)),
             success_rate |-> [num |-> 0, den |-> 1],
             latencies |-> <<>>,
             avg_latency |-> [num |-> 0, den |-> 1],
             min_latency |-> 0, max_latency |-> 0,
             p50_latency |-> 0, p95_latency |-> 0, p99_latency |-> 0]
       ELSE LET stats_dict == CalculateStatistics(latencies)
            IN [pair |-> pair,
                total_requests |-> Len(endpoint_results),
                successful_requests |-> Len(Successful(endpoint_results)),
                failed_requests |-> Len(Failed(endpoint_results)),
                success_rate |-> [num |-> 100 * Len(Successful(endpoint_results)),
                                  den |-> Len(endpoint_results)],
                latencies |-> latencies,
                avg_latency |-> stats_dict.mean,
                min_latency |-> stats_dict.min,
                max_latency |-> stats_dict.max,
                p50_latency |-> stats_dict.p50,
                p95_latency |-> stats_dict.p95,
                p99_latency |-> stats_dict.p99]

\* calculate_statistics(url, method) of this tester
EndpointStats(pair) == StatisticsOf(results, pair)

\* RPCTester.__init__ (line 70): nothing recorded
StatsIdle ==
    /\ results = <<>>
    /\ stats = NoStats

\* test_endpoint records an outcome (lines 290-304)
RecordResult(r) ==
    /\ Len(results) < MaxResults
    /\ results' = Append(results, r)
    /\ UNCHANGED <<stats, otherThanST>>

\* calculate_statistics(url, method) is called
CalculateEndpointStats(pair) ==
    /\ stats' = EndpointStats(pair)
    /\ UNCHANGED <<results, otherThanST>>

-----------------------------------------------------------------------------
(* core.py: RPCTester.test_endpoint *)

(***************************************************************************)
(* test_endpoint creates num_requests coroutines and awaits                *)
(* asyncio.gather with return_exceptions=True: gather runs each as a       *)
(* task and finishes when all of them have, holding for each its return    *)
(* value or the exception that ended it, in the order of the tasks.  A     *)
(* task takes a slot of the semaphore (SlotAcquire, SlotWake above), runs  *)
(* _make_rpc_request and leaves `async with`.  Cancelling the caller of    *)
(* test_endpoint cancels gather and with it every task still running;      *)
(* a single task can be cancelled too (asyncio.all_tasks() reaches it),    *)
(* and gather then holds its CancelledError, which is a BaseException and  *)
(* no Exception.                                                           *)
(***************************************************************************)
\* the request tasks of a batch: range(self.config.num_requests)
BatchTasks == 1..num_requests

\* a TestResult that _make_rpc_request returns for the pair (line 281)
BatchResult(pair, ok) ==
    [pair |-> pair, success |-> ok, latency_ms |-> 1,
     error |-> IF ok THEN "none" ELSE "failed"]

\* lines 294-302: the TestResult recorded for a task that raised
TaskExceptionResult(pair) ==
    [pair |-> pair, success |-> FALSE, latency_ms |-> 0, error |-> "task_exception"]

\* a CancelledError instance: it has no url, method or success attribute
CancelledErrorObject == [exception |-> "CancelledError"]

\* the object has the attributes of a TestResult
IsTestResult(r) == "pair" \in DOMAIN r

\* what gather holds for a task
Pending == [kind |-> "pending"]
Returned(r) == [kind |-> "result", value |-> r]
Raised == [kind |-> "exception"]
Cancelled == [kind |-> "cancelled"]

\* what a call of test_endpoint gave
NotReturned == [kind |-> "none"]
ReturnedList(rs) == [kind |-> "list", value |-> rs]
RaisedError(e) == [kind |-> "raised", value |-> e]

RecordedAsItIs(o, pair) ==
    IF o.kind = "result" THEN o.value ELSE [exception |-> o.kind]

\* lines 290-304: what is appended to self.results for one element of
\* batch_results.  `isinstance(result, Exception)` is false for a
\* CancelledError, which is appended as it is.
Recorded(o, pair) ==
    IF o.kind = "exception" THEN TaskExceptionResult(pair)
    ELSE IF o.kind = "cancelled" THEN CancelledErrorObject
    ELSE o.value

\* line 306: [r for r in self.results if r.url == url and r.method == method],
\* which raises AttributeError on an element that is no TestResult
EndpointResultsOf(rs, pair) ==
    IF \A i \in 1..Len(rs) : IsTestResult(rs[i])
    THEN ReturnedList(SelectSeq(rs, LAMBDA r : r.pair = pair))
    ELSE RaisedError("AttributeError")

\* RPCTester.__init__ (lines 69-72): no call of test_endpoint was made
InitBatch ==
    /\ batch = [phase |-> "idle", pair |-> None]
    /\ outcomes = [t \in Requests |-> Pending]
    /\ returned = NotReturned

\* no batch is run
BatchIdle ==
    /\ num_requests = 1
    /\ InitBatch

\* test_endpoint(url, method) up to `await asyncio.gather(...)`, lines
\* 273-287: a new semaphore and num_requests tasks, none of which has run
TestEndpoint(pair) ==
    /\ batch.phase = "idle"
    /\ Len(results) + num_requests <= MaxBatchResults
    /\ batch' = [phase |-> "gather", pair |-> pair]
    /\ semaphore' = max_concurrent
    /\ slot' = [t \in Requests |-> IF t \in BatchTasks THEN "new" ELSE "none"]
    /\ outcomes' = [t \in Requests |-> Pending]
    /\ returned' = NotReturned
    /\ UNCHANGED <<num_requests, results, stats, bulkhead, max_concurrent,
                   active_calls, total_calls, rejected_calls, otherThanBT>>

\* the task's slot after it left `async with semaphore` (line 280), by
\* return, exception or cancellation
LeaveSemaphore(t) ==
    /\ slot' = [slot EXCEPT ![t] = "done"]
    /\ semaphore' = IF slot[t] = "holding" THEN semaphore + 1 ELSE semaphore

\* line 281: _make_rpc_request returns a TestResult and the task ends
TaskReturn(t, ok) ==
    /\ slot[t] = "holding"
    /\ LeaveSemaphore(t)
    /\ outcomes' = [outcomes EXCEPT ![t] = Returned(BatchResult(batch.pair, ok))]
    /\ UNCHANGED <<num_requests, batch, returned, results, stats, bulkhead,
                   max_concurrent, active_calls, total_calls, rejected_calls,
                   otherThanBT>>

\* line 281: an Exception gets out of _make_rpc_request and ends the task
TaskRaise(t) ==
    /\ slot[t] = "holding"
    /\ LeaveSemaphore(t)
    /\ outcomes' = [outcomes EXCEPT ![t] = Raised]
    /\ UNCHANGED <<num_requests, batch, returned, results, stats, bulkhead,
                   max_concurrent, active_calls, total_calls, rejected_calls,
                   otherThanBT>>

\* one task is cancelled: before it ran, while it waits for a slot, or
\* inside _make_rpc_request (the HTTP call or a backoff sleep)
CancelTask(t) ==
    /\ slot[t] \in {"new", "waiting", "holding"}
    /\ LeaveSemaphore(t)
    /\ outcomes' = [outcomes EXCEPT ![t] = Cancelled]
    /\ UNCHANGED <<num_requests, batch, returned, results, stats, bulkhead,
                   max_concurrent, active_calls, total_calls, rejected_calls,
                   otherThanBT>>

\* the caller of test_endpoint is cancelled while it awaits gather (line
\* 287): every task still running is cancelled and leaves its slot, and
\* test_endpoint ends with CancelledError before line 290
CancelBatch ==
    /\ batch.phase = "gather"
    /\ batch' = [phase |-> "idle", pair |-> None]
    /\ slot' = [t \in Requests |-> IF t \in BatchTasks THEN "done" ELSE "none"]
    /\ semaphore' = max_concurrent
    /\ outcomes' = [t \in Requests |->
          IF t \in BatchTasks /\ slot[t] # "done" THEN Cancelled ELSE outcomes[t]]
    /\ returned' = RaisedError("CancelledError")
    /\ UNCHANGED <<num_requests, results, stats, bulkhead, max_concurrent,
                   active_calls, total_calls, rejected_calls, otherThanBT>>

\* gather is done, every task having ended: lines 290-309
GatherDone ==
    /\ batch.phase = "gather"
    /\ \A t \in BatchTasks : slot[t] = "done"
    /\ results' = results \o [t \in BatchTasks |-> Recorded(outcomes[t], batch.pair)]
    /\ returned' = EndpointResultsOf(results', batch.pair)
    /\ batch' = [phase |-> "idle", pair |-> None]
    /\ UNCHANGED <<num_requests, outcomes, stats, clVars, otherThanBT>>

-----------------------------------------------------------------------------
(* rate_limiter.py: AdaptiveRateLimiter *)

(***************************************************************************)
(* Rates are whole numbers of RateDenominator-ths of a request per second, *)
(* and tokens whole numbers of RateDenominator-ths of a token, so that     *)
(* halving a rate is exact.  The limiter is built with increase_factor 2   *)
(* and decrease_factor 0.5 and whole min_rate, initial_rate and max_rate.  *)
(* Time passes in whole seconds; as the rate is at least the burst size    *)
(* (burst_size is int(rate)), one second fills the bucket up.              *)
(***************************************************************************)
RateDenominator == 2 ^ MaxAdaptiveRate
Scaled(r) == r * RateDenominator

\* the arguments increase_factor and decrease_factor (1 / DecreaseDivisor)
IncreaseFactor == 2
DecreaseDivisor == 2

\* "Increase rate after 10 consecutive successes"
SuccessesToIncrease == 10
\* "Decrease rate after 3 consecutive errors"
ErrorsToDecrease == 3

\* seconds after which elapsed time is no longer counted
FullAfter == 1

\* TokenBucketRateLimiter(rate): burst_size is int(rate) and the bucket
\* starts full (lines 39-42)
NewLimiter(rate) ==
    [rate |-> rate,
     burst_size |-> rate \div RateDenominator,
     tokens |-> Scaled(rate \div RateDenominator),
     elapsed |-> 0]

\* TokenBucketRateLimiter.get_available_tokens, and the refill of acquire
\* (lines 60-63): min(burst_size, tokens + elapsed * rate)
AvailableTokens(b) == Min(Scaled(b.burst_size), b.tokens + b.elapsed * b.rate)

\* min(self.max_rate, self.current_rate * self.increase_factor)
IncreasedRate == Min(max_rate, current_rate * IncreaseFactor)

\* max(self.min_rate, self.current_rate * self.decrease_factor)
DecreasedRate == Max(min_rate, current_rate \div DecreaseDivisor)

ShouldIncreaseLate(n) == n > SuccessesToIncrease

\* line 243: `self.consecutive_successes >= 10`
ShouldIncrease(n) == n >= SuccessesToIncrease

\* line 276: `self.consecutive_errors >= 3`
ShouldDecrease(n) == n >= ErrorsToDecrease

\* AdaptiveRateLimiter.__init__ (lines 222-230)
InitAdaptive(initial_rate) ==
    /\ current_rate = initial_rate
    /\ consecutive_successes = 0
    /\ consecutive_errors = 0
    /\ bucket = NewLimiter(initial_rate)
    /\ reported = [op |-> "init", successes |-> 0, errors |-> 0]

\* no adaptive limiter is used
AdaptiveLimiterIdle ==
    /\ min_rate = Scaled(1)
    /\ max_rate = Scaled(1)
    /\ InitAdaptive(Scaled(1))

\* report_success(), lines 238-251
ReportSuccess ==
    /\ reported.successes < MaxSuccessRun
    /\ consecutive_errors' = 0
    /\ LET successes == consecutive_successes + 1
           new_rate == IncreasedRate
       IN IF ShouldIncrease(successes) /\ new_rate # current_rate
          THEN /\ current_rate' = new_rate
               /\ bucket' = NewLimiter(new_rate)
               /\ consecutive_successes' = 0
          ELSE /\ consecutive_successes' = successes
               /\ UNCHANGED <<current_rate, bucket>>
    /\ reported' = [op |-> "success", successes |-> reported.successes + 1,
                    errors |-> 0]
    /\ UNCHANGED <<min_rate, max_rate, otherThanAR>>

\* report_error(is_rate_limit_error), lines 260-284
ReportError(is_rate_limit_error) ==
    /\ is_rate_limit_error \/ reported.errors < MaxErrorRun
    /\ consecutive_successes' = 0
    /\ LET new_rate == DecreasedRate
       IN IF is_rate_limit_error
          THEN /\ current_rate' = new_rate
               /\ bucket' = NewLimiter(new_rate)
               /\ consecutive_errors' = 0
          ELSE LET errors == consecutive_errors + 1
               IN IF ShouldDecrease(errors) /\ new_rate # current_rate
                  THEN /\ current_rate' = new_rate
                       /\ bucket' = NewLimiter(new_rate)
                       /\ consecutive_errors' = 0
                  ELSE /\ consecutive_errors' = errors
                       /\ UNCHANGED <<current_rate, bucket>>
    /\ reported' = [op |-> IF is_rate_limit_error THEN "rate_limit" ELSE "error",
                    successes |-> 0,
                    errors |-> IF is_rate_limit_error THEN 0 ELSE reported.errors + 1]
    /\ UNCHANGED <<min_rate, max_rate, otherThanAR>>

\* acquire(), line 234: one pass of self.limiter.acquire() (lines 56-72).
\* The bucket is refilled for the time that passed; a token is taken if
\* there is one, and otherwise the caller sleeps and passes again.
AdaptiveAcquire ==
    /\ LET available == AvailableTokens(bucket)
       IN bucket' = [bucket EXCEPT
             !.tokens = IF available >= Scaled(1)
                        THEN available - Scaled(1) ELSE available,
             !.elapsed = 0]
    /\ reported' = [reported EXCEPT !.op = "acquire"]
    /\ UNCHANGED <<current_rate, min_rate, max_rate, consecutive_successes,
                   consecutive_errors, otherThanAR>>

\* a second of time.time() passes
AdaptiveTick ==
    /\ bucket' = [bucket EXCEPT !.elapsed = Min(bucket.elapsed + 1, FullAfter)]
    /\ reported' = [reported EXCEPT !.op = "tick"]
    /\ UNCHANGED <<current_rate, min_rate, max_rate, consecutive_successes,
                   consecutive_errors, otherThanAR>>

-----------------------------------------------------------------------------
(* Specifications *)

InitCB ==
    /\ adaptive \in BOOLEAN
    /\ InitBreaker
    /\ RetryIdle
    /\ LimiterIdle
    /\ BucketIdle
    /\ WindowIdle
    /\ EndpointsIdle
    /\ StatsIdle
    /\ BatchIdle
    /\ AdaptiveLimiterIdle

NextCB ==
    \/ \E c \in Callers : Call(c)
    \/ \E c \in Callers : FuncReturn(c)
    \/ \E c \in Callers : FuncRaise(c)
    \/ Tick
    \/ Reset

SpecCB == InitCB /\ [][NextCB]_vars

\* The plain breaker when callers keep calling and every admitted call
\* ends: a caller that can enter call() does, and func returns or raises.
InitCBLive ==
    /\ adaptive = FALSE
    /\ InitBreaker
    /\ RetryIdle
    /\ LimiterIdle
    /\ BucketIdle
    /\ WindowIdle
    /\ EndpointsIdle
    /\ StatsIdle
    /\ BatchIdle
    /\ AdaptiveLimiterIdle

FairCB ==
    /\ \A c \in Callers : WF_vars(Call(c))
    /\ \A c \in Callers : WF_vars(FuncReturn(c) \/ FuncRaise(c))

SpecCBLive == InitCBLive /\ [][NextCB]_vars /\ FairCB

\* One logical request of _make_rpc_request, for every retry_attempts the
\* Config validation accepts (>= 0) up to the bound; the breaker is not used.
BreakerIdle == adaptive = FALSE /\ InitBreaker /\ config.failure_threshold = 1
               /\ config.success_threshold = 1 /\ config.half_open_max_calls = 1

InitRetry ==
    /\ retry_attempts \in 0..MaxRetryAttempts
    /\ retry_delay \in 1..MaxRetryDelay
    /\ RetryStart
    /\ BreakerIdle
    /\ LimiterIdle
    /\ BucketIdle
    /\ WindowIdle
    /\ EndpointsIdle
    /\ StatsIdle
    /\ BatchIdle
    /\ AdaptiveLimiterIdle

NextRetry ==
    \/ \E resp \in Responses : Dispatch(resp)
    \/ Sleep
    \/ LoopExhausted

SpecRetry == InitRetry /\ [][NextRetry]_vars

\* One batch behind a gate of every capacity up to the bound: the semaphore
\* of test_endpoint (concurrent_requests is at most num_requests, config.py
\* line 86) or a BulkheadPattern.
InitLimiterSpec ==
    /\ bulkhead \in BOOLEAN
    /\ max_concurrent \in 1..MaxConcurrent
    /\ InitLimiter
    /\ BreakerIdle
    /\ RetryIdle
    /\ BucketIdle
    /\ WindowIdle
    /\ EndpointsIdle
    /\ StatsIdle
    /\ BatchIdle
    /\ AdaptiveLimiterIdle

NextLimiter ==
    \/ \E t \in Requests : SlotAcquire(t)
    \/ \E t \in Requests : SlotWake(t)
    \/ \E t \in Requests : SlotRelease(t)
    \/ \E t \in Requests : BulkheadCall(t)
    \/ \E t \in Requests : BulkheadReturn(t)

SpecLimiter == InitLimiterSpec /\ [][NextLimiter]_vars

\* One TokenBucketRateLimiter of every burst size and rate within the
\* bounds, used by concurrent tasks that ask for any number of tokens up to
\* MaxBurst, while a stopwatch measures what is granted.
InitTB ==
    /\ burst_size \in 1..MaxBurst
    /\ period \in 1..MaxPeriod
    /\ InitBucket
    /\ interval = [on |-> TRUE, ticks |-> 0, granted |-> 0]
    /\ BreakerIdle
    /\ RetryIdle
    /\ LimiterIdle
    /\ WindowIdle
    /\ EndpointsIdle
    /\ StatsIdle
    /\ BatchIdle
    /\ AdaptiveLimiterIdle

NextTB ==
    \/ \E t \in Acquirers : \E n \in 1..MaxBurst : Acquire(t, n)
    \/ \E t \in Acquirers : LockGranted(t)
    \/ \E t \in Acquirers : Wake(t)
    \/ TickBucket
    \/ StartInterval

SpecTB == InitTB /\ [][NextTB]_vars

\* The same limiter when every acquire asks for at most burst_size tokens.
\* Time advances, and a task that can run (its sleep is over, or the lock is
\* handed to it) is run by the event loop.
InitTBLive ==
    /\ burst_size \in 1..MaxBurst
    /\ period \in 1..MaxPeriod
    /\ InitBucket
    /\ interval = [on |-> FALSE, ticks |-> 0, granted |-> 0]
    /\ BreakerIdle
    /\ RetryIdle
    /\ LimiterIdle
    /\ WindowIdle
    /\ EndpointsIdle
    /\ StatsIdle
    /\ BatchIdle
    /\ AdaptiveLimiterIdle

NextTBLive ==
    \/ \E t \in Acquirers : \E n \in 1..MaxBurst : AcquireWithinBurst(t, n)
    \/ \E t \in Acquirers : LockGranted(t)
    \/ \E t \in Acquirers : Wake(t)
    \/ TickBucket

FairTB ==
    /\ WF_vars(TickBucket)
    /\ \A t \in Acquirers : WF_vars(LockGranted(t))
    /\ \A t \in Acquirers : WF_vars(Wake(t))

SpecTBLive == InitTBLive /\ [][NextTBLive]_vars /\ FairTB

\* TokenBucketRateLimiter(requests_per_second) with no burst_size, for rates
\* from TicksPerSecond down to 1 / MaxPeriod a second, of which tasks
\* acquire one token at a time (as PerEndpointRateLimiter.acquire and
\* AdaptiveRateLimiter.acquire do).  The event loop runs as in SpecTBLive.
InitTBDefault ==
    /\ period \in 1..(TicksPerSecond * MaxPeriod)
    /\ burst_size = DefaultBurstSize
    /\ InitBucket
    /\ interval = [on |-> FALSE, ticks |-> 0, granted |-> 0]
    /\ BreakerIdle
    /\ RetryIdle
    /\ LimiterIdle
    /\ WindowIdle
    /\ EndpointsIdle
    /\ StatsIdle
    /\ BatchIdle
    /\ AdaptiveLimiterIdle

NextTBDefault ==
    \/ \E t \in Acquirers : Acquire(t, 1)
    \/ \E t \in Acquirers : LockGranted(t)
    \/ \E t \in Acquirers : Wake(t)
    \/ TickBucket

SpecTBDefault == InitTBDefault /\ [][NextTBDefault]_vars /\ FairTB

\* One SlidingWindowRateLimiter of every window and every rate * window_size
\* from 0 to the bound in steps of one half, used by concurrent tasks.
InitSW ==
    /\ window_size \in 1..MaxWindow
    /\ window_limit \in 0..MaxWindowLimit
    /\ InitWindow
    /\ BreakerIdle
    /\ RetryIdle
    /\ LimiterIdle
    /\ BucketIdle
    /\ EndpointsIdle
    /\ StatsIdle
    /\ BatchIdle
    /\ AdaptiveLimiterIdle

NextSW ==
    \/ \E t \in Acquirers : WindowAcquire(t)
    \/ \E t \in Acquirers : WindowLockGranted(t)
    \/ \E t \in Acquirers : WindowWake(t)
    \/ TickWindow

SpecSW == InitSW /\ [][NextSW]_vars

\* One PerEndpointRateLimiter of every default rate within the bound, used
\* by concurrent tasks for several urls while rate limits are set.
InitPE ==
    /\ default_rate \in 1..MaxRate
    /\ InitEndpoints
    /\ BreakerIdle
    /\ RetryIdle
    /\ LimiterIdle
    /\ BucketIdle
    /\ WindowIdle
    /\ StatsIdle
    /\ BatchIdle
    /\ AdaptiveLimiterIdle

NextPE ==
    \/ \E u \in Urls : \E r \in 1..MaxRate : SetRateLimit(u, r)
    \/ \E t \in Acquirers : \E u \in Urls : EndpointAcquire(t, u)
    \/ \E t \in Acquirers : EndpointWake(t)
    \/ TickEndpoints

SpecPE == InitPE /\ [][NextPE]_vars

\* An RPCTester whose results are recorded one by one, starting from none
\* or from the ten samples a test stores, with statistics asked for at any
\* moment.
InitStats ==
    /\ results \in {<<>>, TenSamples}
    /\ stats = NoStats
    /\ BreakerIdle
    /\ RetryIdle
    /\ LimiterIdle
    /\ BucketIdle
    /\ WindowIdle
    /\ EndpointsIdle
    /\ BatchIdle
    /\ AdaptiveLimiterIdle

NextStats ==
    \/ \E r \in RecordedResults : RecordResult(r)
    \/ \E pair \in Pairs : CalculateEndpointStats(pair)

SpecStats == InitStats /\ [][NextStats]_vars

\* An RPCTester of every num_requests and concurrent_requests within the
\* bounds (concurrent_requests is at most num_requests, config.py line 86),
\* on which test_endpoint is called again and again for any pair; tasks
\* return, raise or are cancelled, and the caller may be cancelled.
InitBatchSpec ==
    /\ num_requests \in 1..MaxBatchRequests
    /\ max_concurrent \in 1..num_requests
    /\ bulkhead = FALSE
    /\ semaphore = max_concurrent
    /\ slot = [t \in Requests |-> "none"]
    /\ active_calls = 0
    /\ total_calls = 0
    /\ rejected_calls = 0
    /\ InitBatch
    /\ StatsIdle
    /\ BreakerIdle
    /\ RetryIdle
    /\ BucketIdle
    /\ WindowIdle
    /\ EndpointsIdle
    /\ AdaptiveLimiterIdle

NextBatch ==
    \/ \E pair \in Pairs : TestEndpoint(pair)
    \/ \E t \in Requests : SlotAcquire(t)
    \/ \E t \in Requests : SlotWake(t)
    \/ \E t \in Requests : \E ok \in BOOLEAN : TaskReturn(t, ok)
    \/ \E t \in Requests : TaskRaise(t)
    \/ \E t \in Requests : CancelTask(t)
    \/ CancelBatch
    \/ GatherDone

SpecBatch == InitBatchSpec /\ [][NextBatch]_vars

\* An AdaptiveRateLimiter of every whole min_rate <= initial_rate <=
\* max_rate within the bound, to which successes, ordinary errors and
\* rate-limit errors are reported in any order while tokens are acquired.
InitAR ==
    /\ min_rate \in {Scaled(r) : r \in 1..MaxAdaptiveRate}
    /\ max_rate \in {Scaled(r) : r \in 1..MaxAdaptiveRate}
    /\ min_rate <= max_rate
    /\ \E initial_rate \in {Scaled(r) : r \in 1..MaxAdaptiveRate} :
          /\ min_rate <= initial_rate
          /\ initial_rate <= max_rate
          /\ InitAdaptive(initial_rate)
    /\ BreakerIdle
    /\ RetryIdle
    /\ LimiterIdle
    /\ BucketIdle
    /\ WindowIdle
    /\ EndpointsIdle
    /\ StatsIdle
    /\ BatchIdle

NextAR ==
    \/ ReportSuccess
    \/ \E is_rate_limit_error \in BOOLEAN : ReportError(is_rate_limit_error)
    \/ AdaptiveAcquire
    \/ AdaptiveTick

SpecAR == InitAR /\ [][NextAR]_vars

-----------------------------------------------------------------------------
(* Properties of the circuit breaker, checked under SpecCB *)

\* less than timeout has passed since the last failure
WithinTimeout ==
    last_failure_time # None /\ now - last_failure_time < config.timeout

\* the step taken is that operation (every operation records itself in last_op)
StepAdmit(c) == pc[c] = "idle" /\ pc'[c] = "func"
StepReject(c) == last_op'.op = "reject" /\ last_op'.caller = c
StepReturn(c) == pc[c] = "func" /\ pc'[c] = "idle" /\ last_op'.op = "return"
StepRaise(c) == pc[c] = "func" /\ pc'[c] = "idle" /\ last_op'.op = "raise"
StepReset == last_op'.op = "reset"
StepTick == now' # now

\* calls admitted as HALF_OPEN trials that are still awaiting func
TrialsInFlight == {c \in Callers : pc[c] = "func" /\ trial[c]}

\* C1: for the plain CircuitBreaker, the failure that makes failure_threshold
\* consecutive failures (no success recorded in between) leaves the state
\* OPEN; the state stays OPEN while less than timeout has passed since the
\* last failure, and no call made in that time gets to invoke func.
C1_OpensAfterThresholdFailures ==
    [][~adaptive =>
         /\ \A c \in Callers :
               StepRaise(c) /\ consec' >= config.failure_threshold
                  => state' = OPEN
         /\ consec' >= config.failure_threshold /\ WithinTimeout' => state' = OPEN
         /\ state = OPEN /\ WithinTimeout => \A c \in Callers : ~StepAdmit(c)
      ]_vars

\* C1 witness: after failure_threshold (>= 2) consecutive failures a call is
\* rejected by the OPEN breaker within the timeout.
C1_Witness ==
    /\ ~adaptive
    /\ config.failure_threshold >= 2
    /\ consec >= config.failure_threshold
    /\ state = OPEN
    /\ WithinTimeout
    /\ last_op.op = "reject"

\* C2: for the plain CircuitBreaker, OPEN is left (manual reset() aside) only
\* by a call made when now - last_failure_time >= timeout: that call moves
\* the breaker to HALF_OPEN, restarts the trial counter (it is 1 after the
\* call, whatever it was) and is admitted as a trial; a call made earlier is
\* rejected and leaves the breaker OPEN; the clock advancing changes no
\* field of the breaker.
C2_LazyHalfOpen ==
    [][~adaptive =>
         /\ state = OPEN /\ state' # OPEN /\ ~StepReset
               => /\ ~WithinTimeout
                  /\ state' = HALF_OPEN
                  /\ half_open_calls' = 1
                  /\ \E c \in Callers : StepAdmit(c) /\ trial'[c]
         /\ state = OPEN /\ ~WithinTimeout
               => \A c \in Callers :
                     /\ ~StepReject(c)
                     /\ StepAdmit(c) => state' = HALF_OPEN /\ trial'[c]
         /\ state = OPEN /\ WithinTimeout
               => /\ \A c \in Callers : ~StepAdmit(c)
                  /\ ~StepReset => state' = OPEN
         /\ StepTick
               => UNCHANGED <<state, failure_count, success_count,
                              last_failure_time, half_open_calls>>
      ]_vars

\* C2 witness: a call has just moved the breaker from OPEN to HALF_OPEN after
\* the timeout and is in flight as the first trial.
C2_Witness ==
    /\ ~adaptive
    /\ state = HALF_OPEN
    /\ last_op.op = "admit"
    /\ trial[last_op.caller]
    /\ half_open_calls = 1
    /\ ~WithinTimeout

\* C3: for the plain CircuitBreaker in HALF_OPEN, a step closes the breaker
\* (manual reset() aside) exactly when it records a success that brings the
\* successes recorded since HALF_OPEN was entered to success_threshold; and
\* whenever it closes, success_count is 0 afterwards.
C3_ClosesAfterSuccessThreshold ==
    [][~adaptive /\ state = HALF_OPEN =>
         /\ (state' = CLOSED /\ ~StepReset)
               <=> /\ \E c \in Callers : StepReturn(c)
                   /\ half_open_successes' >= config.success_threshold
         /\ state' = CLOSED => success_count' = 0
      ]_vars

\* C3 witness: the breaker has closed from HALF_OPEN on the second of two
\* successes (success_threshold = 2).
C3_Witness ==
    /\ ~adaptive
    /\ config.success_threshold = 2
    /\ state = CLOSED
    /\ last_op.op = "return"
    /\ half_open_successes = 2
    /\ success_count = 0
    /\ half_open_calls = 2

\* C4 (the claim as stated): for both variants, a failure recorded while the
\* breaker is HALF_OPEN leaves it OPEN with success_count = 0.
C4_FailureInHalfOpenResets ==
    [][\A c \in Callers :
          state = HALF_OPEN /\ StepRaise(c)
             => state' = OPEN /\ success_count' = 0
      ]_vars

\* C5 (the claim as stated): while the breaker is HALF_OPEN, at most
\* half_open_max_calls trial calls are in flight.
C5_TrialsBounded ==
    state = HALF_OPEN => Cardinality(TrialsInFlight) <= config.half_open_max_calls

\* C6: for both variants, a call rejected because the breaker is OPEN starts
\* no function (no caller changes position) and leaves failure_count,
\* success_count, last_failure_time and recent_calls as they were.
C6_RejectionNotCounted ==
    [][\A c \in Callers :
          StepReject(c) /\ state' = OPEN
             => UNCHANGED <<failure_count, success_count, last_failure_time,
                            recent_calls, pc>>
      ]_vars

\* C6 witness: an adaptive breaker with recorded outcomes has rejected a call
\* while OPEN.
C6_Witness ==
    /\ adaptive
    /\ state = OPEN
    /\ last_op.op = "reject"
    /\ Len(recent_calls) >= 2
    /\ failure_count >= 1

-----------------------------------------------------------------------------
(* Properties of the retry loop, checked under SpecRetry *)

\* a failed attempt the RetryPolicy retries: HTTP 5xx, timeout, connection error
Retryable(resp) ==
    \/ resp.kind = "http" /\ resp.status >= 500
    \/ resp.kind \in {"timeout", "client_error"}

\* an application-level failure: HTTP 4xx, or HTTP 200 with an "error" field
Terminal(resp) ==
    \/ resp.kind = "http" /\ resp.status >= 400 /\ resp.status <= 499
    \/ resp.kind = "rpc_error"

\* C7: one logical request makes at most retry_attempts dispatches, every
\* sleep is followed by another dispatch, and the request ends on a dispatch
\* (or without any), never on a sleep.
C7_AttemptsBounded ==
    /\ dispatches <= retry_attempts
    /\ rpc = "sleep" => dispatches < retry_attempts
    /\ rpc = "done" => last_event # "sleep"

\* C7 witness: a request that used all its attempts, sleeping between them.
C7_Witness ==
    /\ rpc = "done"
    /\ retry_attempts = 3
    /\ dispatches = 3
    /\ Len(sleeps) = 2

\* C8: a finished request whose attempts all failed retryably made exactly
\* retry_attempts dispatches and returned success = false with
\* attempt = retry_attempts; one whose first retry_attempts - 1 attempts were
\* HTTP 500 and whose last was HTTP 200 with a result returned success = true
\* with attempt = retry_attempts.
C8_ExhaustedAndLateSuccess ==
    rpc = "done" =>
      /\ (\A i \in 1..Len(attempts) : Retryable(attempts[i]))
            => /\ dispatches = retry_attempts
               /\ ~result.success
               /\ result.attempt = retry_attempts
      /\ ( /\ Len(attempts) = retry_attempts
           /\ retry_attempts >= 1
           /\ \A i \in 1..(retry_attempts - 1) :
                 attempts[i] = [kind |-> "http", status |-> 500]
           /\ attempts[retry_attempts].kind = "result" )
            => result.success /\ result.attempt = retry_attempts

\* C8 witness: 500, 500, 200 with retry_attempts = 3 gave success, attempt 3.
C8_Witness ==
    /\ rpc = "done"
    /\ retry_attempts = 3
    /\ attempts = << [kind |-> "http", status |-> 500],
                     [kind |-> "http", status |-> 500],
                     [kind |-> "result", status |-> 200] >>
    /\ result.success
    /\ result.attempt = 3

\* C9 (the claim as stated): the attempt field of every returned outcome is
\* the number of dispatches made for the request.
C9_AttemptIsDispatches ==
    rpc = "done" => result.attempt = dispatches

\* C10: an attempt that came back HTTP 4xx, or HTTP 200 with an "error"
\* field, is the last event of its request: it is the last dispatch, no sleep
\* follows it, the request is over and its outcome is a failure.
C10_ApplicationFailureTerminal ==
    \A i \in 1..Len(attempts) :
       Terminal(attempts[i])
          => /\ i = Len(attempts)
             /\ last_event = "dispatch"
             /\ rpc = "done"
             /\ ~result.success

\* C10 witness: HTTP 500 was retried, then HTTP 404 ended the request with
\* one attempt still unused.
C10_Witness ==
    /\ rpc = "done"
    /\ retry_attempts = 3
    /\ Len(attempts) = 2
    /\ attempts[1] = [kind |-> "http", status |-> 500]
    /\ attempts[2] = [kind |-> "http", status |-> 404]
    /\ ~result.success

\* C11 (the claim as stated): a further dispatch follows a failed attempt
\* only if that attempt was a timeout, a connection error or an HTTP 5xx:
\* every attempt that is followed by a sleep or by another dispatch is
\* retryable in that sense.
C11_RetriesOnlyRetryable ==
    /\ \A i \in 1..(Len(attempts) - 1) : Retryable(attempts[i])
    /\ rpc = "sleep" => Retryable(attempts[Len(attempts)])

-----------------------------------------------------------------------------
(* Properties of the concurrency limit, checked under SpecLimiter *)

\* the requests that hold a slot
InFlight == {t \in Requests : slot[t] = "holding"}

\* C12 (the claim as stated): the requests holding a slot never number more
\* than the capacity, and a request that finds no free slot waits for one:
\* none is turned away.
C12_SlotsBoundedAndAcquireWaits ==
    /\ Cardinality(InFlight) <= max_concurrent
    /\ \A t \in Requests : slot[t] # "rejected"

-----------------------------------------------------------------------------
(* Properties of the token bucket, checked under SpecTB and SpecTBLive *)

\* the tasks inside acquire()
Sleeping == {t \in Acquirers : acquirers[t].pc = "sleep"}
Queued == {t \in Acquirers : acquirers[t].pc = "lock"}

\* C13: in every reachable state 0 <= tokens <= burst_size, whatever was
\* asked for (also more than burst_size) and however much time passed.
C13_TokensWithinBucket ==
    /\ tokens >= 0
    /\ tokens <= Units(burst_size)

\* C13 witness: the bucket was emptied, then time passed beyond what refills
\* it; a task asked for more than is there and sleeps.
C13_Witness ==
    /\ burst_size = 2
    /\ period = 2
    /\ tokens = 1
    /\ since_update = Units(burst_size)
    /\ Sleeping # {}
    /\ interval.granted >= 2

\* C14: every acquire(n) with 1 <= n <= burst_size eventually returns, with
\* any number of tasks acquiring from the same limiter.
C14_AcquireReturns ==
    \A t \in Acquirers :
       (acquirers[t].pc # "idle") ~> (acquirers[t].pc = "idle")

\* C14 witness: one task sleeps inside acquire holding the lock while
\* another waits for the lock.
C14_Witness ==
    /\ Sleeping # {}
    /\ Queued # {}
    /\ \A t \in Sleeping : acquirers[t].wait_time >= 2

\* C15: over any interval the tokens granted are at most burst_size plus
\* rate times the length of the interval (in units of 1/period token: one
\* per tick); for k single-token acquires from a fresh limiter this is
\* elapsed >= (k - burst_size) / rate.
C15_RateBound ==
    interval.on /\ interval.ticks < MaxInterval /\ interval.granted < MaxGranted
       => Units(interval.granted) <= Units(burst_size) + interval.ticks

\* C15 witness: more tokens than the burst were granted, as fast as the
\* bound allows.
C15_Witness ==
    /\ interval.on
    /\ interval.ticks < MaxInterval
    /\ interval.ticks >= 2
    /\ interval.granted > burst_size
    /\ Units(interval.granted) = Units(burst_size) + interval.ticks

-----------------------------------------------------------------------------
(* Properties of the sliding window, checked under SpecSW *)

\* rate * window_size rounded up
WindowCapacity == (window_limit + 1) \div 2

\* the step admits a call: acquire() returns
AdmissionStep == Len(admitted') = Len(admitted) + 1

\* C16 (the claim as stated): the calls admitted within the trailing window
\* never number more than rate * window_size rounded up; a call is admitted
\* only in a step that finds fewer than rate * window_size calls recorded
\* within the window, and it is then recorded.
C16_WindowBounded ==
    /\ [](Len(admitted) <= WindowCapacity)
    /\ [][AdmissionStep =>
             /\ HasRoom(RemoveOld(requests))
             /\ requests' = Append(RemoveOld(requests), 0)]_vars

-----------------------------------------------------------------------------
(* Properties of the per endpoint limiter, checked under SpecPE *)

\* the limiter instances ever created for url u
InstancesOf(u) == {i \in 1..Len(buckets) : buckets[i].url = u}

\* the step takes a token from instance i
TokenTaken(i) == i <= Len(buckets) /\ buckets'[i].tokens < buckets[i].tokens

\* task t ends an acquire(u) in this step, or makes one that returns at once
AcquireOf(t, u) ==
    \/ endpoint_tasks[t].pc = "waiting" /\ endpoint_tasks[t].url = u
          /\ endpoint_tasks'[t].pc = "idle"
    \/ endpoint_tasks[t].pc = "idle" /\ u \in used'

\* C17 (the claim as stated): a url has a limiter instance exactly if
\* acquire was called for it, and never a second one; every task inside
\* acquire(url) draws on the instance registered for the url; a url without
\* an override has a limiter of default_rate; and a token leaves a bucket
\* only by an acquire for that bucket's url.
C17_OneBucketPerUrl ==
    /\ [](\A u \in Urls :
            /\ Cardinality(InstancesOf(u)) = IF u \in used THEN 1 ELSE 0
            /\ \A t \in Acquirers :
                  endpoint_tasks[t].url = u => endpoint_tasks[t].limiter = limiters[u]
            /\ custom_rates[u] = None /\ limiters[u] # None
                  => buckets[limiters[u]].rate = default_rate)
    /\ [][\A i \in 1..MaxBuckets :
            TokenTaken(i) => \E t \in Acquirers : AcquireOf(t, buckets[i].url)]_vars

-----------------------------------------------------------------------------
(* Properties of the statistics, checked under SpecStats *)

\* statistics were returned for a pair
HasStats == stats # NoStats

\* the percentile of the specification in hundredths: linear interpolation
\* over the sorted samples at position k = (n - 1) * p / 100
LinearInterpolation(data, p) ==
    LET sorted == Sorted(data)
        k100 == (Len(data) - 1) * p
        floor == k100 \div 100
        ceil == IF k100 % 100 = 0 THEN floor ELSE floor + 1
        frac == k100 - 100 * floor
    IN sorted[floor + 1] * (100 - frac) + sorted[ceil + 1] * frac

\* C18: the statistics of a pair satisfy
\* successful_requests + failed_requests = total_requests.
C18_CountsAddUp ==
    HasStats =>
       stats.successful_requests + stats.failed_requests = stats.total_requests

\* C18 witness: a success and a failure were recorded for the pair and one
\* outcome for another pair.
C18_Witness ==
    /\ HasStats
    /\ stats.total_requests = 2
    /\ stats.successful_requests = 1
    /\ stats.failed_requests = 1
    /\ Len(results) = 3

\* C19 (the claim as stated): with at least one latency sample,
\* p50 <= p95 <= p99 <= max.
C19_PercentilesOrdered ==
    HasStats /\ stats.latencies # <<>> =>
       /\ stats.p50_latency <= stats.p95_latency
       /\ stats.p95_latency <= stats.p99_latency
       /\ stats.p99_latency <= stats.max_latency

\* C20 (the claim as stated): the percentiles of the latency statistics are
\* the linear interpolation at k = (n - 1) * p, which for 10, 20, ..., 100
\* is p50 = 55, p95 = 95.5, p99 = 99.1; StatisticalAnalyzer's percentile is
\* the same interpolation.
C20_PercentileIsInterpolation ==
    HasStats /\ stats.latencies # <<>> =>
       /\ stats.p50_latency = LinearInterpolation(stats.latencies, 50)
       /\ stats.p95_latency = LinearInterpolation(stats.latencies, 95)
       /\ stats.p99_latency = LinearInterpolation(stats.latencies, 99)
       /\ \A p \in {50, 95, 99} :
             AnalyzerPercentile(stats.latencies, p) = LinearInterpolation(stats.latencies, p)
       /\ Len(stats.latencies) = 10 =>
             /\ stats.p50_latency = 5500
             /\ stats.p95_latency = 9550
             /\ stats.p99_latency = 9910

-----------------------------------------------------------------------------
(* Properties of the batch, checked under SpecBatch *)

\* the step is the end of gather: lines 290-309 record the batch
GatherStep == results' # results

\* the step ends task t with an exception
RaiseStep(t) == outcomes[t] # Raised /\ outcomes'[t] = Raised

\* no task of the batch was cancelled, and none ever before on this tester
NothingCancelled ==
    /\ \A t \in BatchTasks : outcomes[t] # Cancelled
    /\ \A i \in 1..Len(results) : IsTestResult(results[i])

\* C21: an exception that ends one request task leaves every other task and
\* the batch as they were; when gather is done (no task having been
\* cancelled) test_endpoint returns a list, nothing propagating out of it,
\* having recorded one outcome per task in the order of the tasks: for a
\* task that raised a failure tagged as a task exception, for every other
\* task the TestResult it returned.
C21_TaskIsolation ==
    [][/\ \A t \in BatchTasks :
             RaiseStep(t) =>
                /\ batch' = batch
                /\ \A u \in BatchTasks \ {t} :
                      slot'[u] = slot[u] /\ outcomes'[u] = outcomes[u]
       /\ GatherStep /\ NothingCancelled =>
             /\ returned'.kind = "list"
             /\ Len(results') = Len(results) + num_requests
             /\ \A t \in BatchTasks :
                   LET r == results'[Len(results) + t]
                   IN IF outcomes[t] = Raised
                      THEN /\ r.pair = batch.pair
                           /\ ~r.success
                           /\ r.error = "task_exception"
                      ELSE r = outcomes[t].value
      ]_vars

\* C21 witness: a batch of three requests has returned: one task raised and
\* is recorded as a task exception, a sibling succeeded, a sibling failed.
C21_Witness ==
    /\ returned.kind = "list"
    /\ Len(returned.value) = 3
    /\ \E i, j, k \in 1..3 :
          /\ returned.value[i].error = "task_exception"
          /\ returned.value[j].success
          /\ returned.value[k].error = "failed"
    /\ outcomes[2] = Raised

\* C22: whenever test_endpoint has returned, whatever was called on the
\* tester before, the list it returned has exactly num_requests outcomes;
\* and when every one of them is a success the statistics of the pair are
\* total = successful = num_requests and failed = 0.
C22_ExactlyNumRequests ==
    returned.kind = "list" =>
       /\ Len(returned.value) = num_requests
       /\ (\A i \in 1..Len(returned.value) : returned.value[i].success) =>
             LET s == EndpointStats(returned.value[1].pair)
             IN /\ s.total_requests = num_requests
                /\ s.successful_requests = num_requests
                /\ s.failed_requests = 0

\* the tasks of the batch that were cancelled
CancelledTasks == {t \in BatchTasks : outcomes[t] = Cancelled}

\* the step cancels the caller of test_endpoint
CancelBatchStep == returned' = RaisedError("CancelledError") /\ batch.phase = "gather"

\* C23: cancellation gives back every slot of the semaphore (the slots that
\* are free and the tasks inside `async with` always add up to
\* concurrent_requests), and nothing is recorded for a cancelled request:
\* a cancelled batch leaves self.results as it was, and a batch in which
\* tasks were cancelled records a TestResult for each of the other tasks
\* and for them alone, and returns.
C23_CancellationIsClean ==
    /\ [](semaphore + Cardinality(InFlight) = max_concurrent)
    /\ [][/\ CancelBatchStep => results' = results
          /\ GatherStep =>
                /\ Len(results') = Len(results) + num_requests - Cardinality(CancelledTasks)
                /\ \A i \in 1..Len(results') : IsTestResult(results'[i])
                /\ returned'.kind = "list"
         ]_vars

-----------------------------------------------------------------------------
(* Further properties of the circuit breaker, checked under SpecCB *)

\* C24: a CLOSED adaptive breaker is OPEN after an outcome was recorded if
\* and only if more than half of the outcomes in recent_calls (the last
\* window_size ones, the new one included) are failures; failure_count and
\* failure_threshold play no part.
C24_OpensOnWindowedRateOnly ==
    [][\A c \in Callers :
          adaptive /\ state = CLOSED /\ (StepReturn(c) \/ StepRaise(c)) =>
             (state' = OPEN <=> 2 * Failures(recent_calls') > Len(recent_calls'))
      ]_vars

\* C27: the completion of a call that was not admitted as a HALF_OPEN trial
\* (it was admitted while the breaker was CLOSED) and ends while the breaker
\* is HALF_OPEN leaves success_count as it was and the breaker HALF_OPEN.
C27_OnlyTrialsCount ==
    [][\A c \in Callers :
          state = HALF_OPEN /\ ~trial[c] /\ (StepReturn(c) \/ StepRaise(c)) =>
             success_count' = success_count /\ state' = HALF_OPEN
      ]_vars

-----------------------------------------------------------------------------
(* Property of the circuit breaker, checked under SpecCBLive *)

\* C26: a breaker that is HALF_OPEN is later CLOSED or OPEN, under every
\* configuration, when callers keep calling and admitted calls end.
C26_HalfOpenIsLeft == (state = HALF_OPEN) ~> (state # HALF_OPEN)

-----------------------------------------------------------------------------
(* Properties of the adaptive rate limiter, checked under SpecAR *)

\* the step is report_success(), report_error() or report_error(True)
SuccessStep ==
    reported'.op = "success" /\ reported'.successes = reported.successes + 1
ErrorStep ==
    reported'.op = "error" /\ reported'.errors = reported.errors + 1
RateLimitStep == reported'.op = "rate_limit"

\* C25: current_rate always lies between min_rate and max_rate.  A reported
\* success changes the rate exactly when it is the 10th, 20th, ... success
\* in a row, to current_rate * increase_factor capped at max_rate; an
\* ordinary error exactly when it is the 3rd, 6th, ... ordinary error in a
\* row, to current_rate * decrease_factor floored at min_rate, which is also
\* what every rate-limit error does; no other call changes the rate.
C25_RateAdapts ==
    /\ [](min_rate <= current_rate /\ current_rate <= max_rate)
    /\ [][/\ SuccessStep =>
                current_rate' = IF reported'.successes % SuccessesToIncrease = 0
                                THEN IncreasedRate ELSE current_rate
          /\ ErrorStep =>
                current_rate' = IF reported'.errors % ErrorsToDecrease = 0
                                THEN DecreasedRate ELSE current_rate
          /\ RateLimitStep => current_rate' = DecreasedRate
          /\ ~(SuccessStep \/ ErrorStep \/ RateLimitStep) =>
                current_rate' = current_rate
         ]_vars

\* C25 witness: twenty successes were reported in a row and the rate, which
\* started at min_rate, was doubled at the tenth and at the twentieth.
C25_Witness ==
    /\ reported.op = "success"
    /\ reported.successes = 2 * SuccessesToIncrease
    /\ consecutive_successes = 0
    /\ current_rate = IncreaseFactor * IncreaseFactor * min_rate

\* C29: report_error never leaves more tokens available than there were
\* just before it.
C29_DecreaseGivesNoTokens ==
    [][ErrorStep \/ RateLimitStep =>
          AvailableTokens(bucket') <= AvailableTokens(bucket)]_vars

-----------------------------------------------------------------------------
(* Property of the token bucket with the default burst size, checked under
   SpecTBDefault *)

\* C28: with burst_size left to its default, for every positive rate (rates
\* below one request a second included), every acquire() of one token
\* eventually returns.
C28_DefaultAcquireReturns ==
    \A t \in Acquirers :
       (acquirers[t] # NotAcquiring) ~> (acquirers[t] = NotAcquiring)

-----------------------------------------------------------------------------
(* Property of the locks, checked under SpecPE *)

\* the step replaces the limiter registered for url u by another instance
Replaced(u) == limiters[u] # None /\ limiters'[u] # limiters[u]

\* C30: a limiter is replaced under its lock, that is, never while a task is
\* inside its acquire() (the lock is held from the first line of acquire to
\* its return, sleep included); and so every token that is deducted is
\* deducted from the limiter in use for the url, no deduction being lost on
\* an instance that was replaced.
C30_UpdatesUnderLock ==
    [][/\ \A u \in Urls : Replaced(u) => WaitingOn(limiters[u]) = {}
       /\ \A i \in 1..MaxBuckets :
             TokenTaken(i) => limiters'[buckets[i].url] = i
      ]_vars

-----------------------------------------------------------------------------
(* Invariant of the circuit breaker, checked under SpecCB *)

\* C31: while the breaker is CLOSED failure_count is below
\* failure_threshold; and the plain breaker has success_count = 0 whenever
\* it is not HALF_OPEN.
C31_ClosedBelowThreshold ==
    /\ state = CLOSED => failure_count < config.failure_threshold
    /\ ~adaptive /\ state # HALF_OPEN => success_count = 0

\* C31 witness: the plain breaker is CLOSED one failure short of the
\* threshold, having been HALF_OPEN with a success counted before.
C31_Witness ==
    /\ ~adaptive
    /\ state = CLOSED
    /\ config.failure_threshold = 2
    /\ failure_count = 1
    /\ config.success_threshold = 2
    /\ half_open_successes >= 2

-----------------------------------------------------------------------------
(* Further properties of the batch, checked under SpecBatch *)

\* the step ends task t with the outcome of its logical request
OutcomeStep(t) ==
    outcomes[t] = Pending /\ outcomes'[t].kind \in {"result", "exception"}

\* C32: a request task that holds a slot of the semaphore, and so is in the
\* retry loop, has taken a token of the rate limiter and been admitted by
\* the circuit breaker before; and the step that ends a request with its
\* outcome records a success or a failure in the circuit breaker.
C32_GatesInOrder ==
    /\ [](\A t \in BatchTasks :
            slot[t] = "holding" =>
               /\ tokens < Units(burst_size)
               /\ \E c \in Callers : pc[c] = "func")
    /\ [][\A t \in BatchTasks :
            OutcomeStep(t) => last_op'.op \in {"return", "raise"}]_vars

-----------------------------------------------------------------------------
(* Further properties of _make_rpc_request, checked under SpecRetry *)

\* the step dispatches one attempt
DispatchStep == dispatches' = dispatches + 1

\* what the attempt of a dispatch step got from session.post
Attempted == attempts'[Len(attempts')]

\* C33: an attempt that gets HTTP 200 with a "result" ends the request with
\* a success that holds the value; HTTP 200 with a top-level "error" ends it
\* with a failure that holds the error; a status other than 200 gives no
\* success, and the failure it ends with carries that status code; HTTP 200
\* with a body that is no JSON gives an error and no success.
C33_Classification ==
    [][DispatchStep =>
          /\ Attempted.kind = "result" =>
                /\ rpc' = "done"
                /\ result'.success
                /\ result'.response_data = "value"
                /\ result'.status_code = 200
          /\ Attempted.kind = "rpc_error" =>
                /\ rpc' = "done"
                /\ ~result'.success
                /\ result'.error = "rpc"
                /\ result'.response_data = "none"
          /\ Attempted.kind = "http" =>
                /\ ~result'.success
                /\ status_code' = Attempted.status
                /\ rpc' = "done" => result'.status_code = Attempted.status
          /\ Attempted.kind = "bad_json" =>
                /\ ~result'.success
                /\ error' = "unexpected"
                /\ rpc' = "done" => result'.error = "unexpected"
      ]_vars

\* C33 witness: a request ended in failure on an attempt answered with
\* HTTP 404, after an attempt answered with HTTP 200 and no JSON.
C33_Witness ==
    /\ rpc = "done"
    /\ Len(attempts) = 2
    /\ attempts[1].kind = "bad_json"
    /\ attempts[2].kind = "http" /\ attempts[2].status = 404
    /\ ~result.success
    /\ result.status_code = 404

-----------------------------------------------------------------------------
(* Further properties of the statistics, checked under SpecStats *)

\* the step is a call of calculate_statistics that returned statistics
StatsStep == stats' # stats /\ stats' # NoStats

\* the places in self.results of the outcomes of the pair
OutcomesOf(pair) == {i \in 1..Len(results) : results[i].pair = pair}

\* C34: calculate_statistics for a pair with recorded outcomes none of which
\* is a success with a latency, so that there is no latency sample, returns
\* statistics with avg, min, max, p50, p95 and p99 all 0, with
\* total_requests the number of the pair's outcomes and failed_requests the
\* number of its failures.
C34_ZeroSamples ==
    [][StatsStep /\ (\A i \in OutcomesOf(stats'.pair) :
                        ~(results[i].success /\ results[i].latency_ms # None)) =>
          /\ stats'.latencies = <<>>
          /\ stats'.avg_latency = [num |-> 0, den |-> 1]
          /\ stats'.min_latency = 0
          /\ stats'.max_latency = 0
          /\ stats'.p50_latency = 0
          /\ stats'.p95_latency = 0
          /\ stats'.p99_latency = 0
          /\ stats'.total_requests = Cardinality(OutcomesOf(stats'.pair))
          /\ stats'.failed_requests =
                Cardinality({i \in OutcomesOf(stats'.pair) : ~results[i].success})
      ]_vars

\* C34 witness: statistics of a pair whose outcomes are a failure with
\* latency 0 and a failure without latency.
C34_Witness ==
    /\ HasStats
    /\ stats.latencies = <<>>
    /\ stats.total_requests = 2
    /\ stats.failed_requests = 2
    /\ stats.max_latency = 0
    /\ \E i, j \in OutcomesOf(stats.pair) :
          results[i].latency_ms = None /\ results[j].latency_ms = 0

\* C35: every latency sample of the statistics is the latency of an outcome
\* of the pair that has one, and there are no more samples than such
\* outcomes; avg, min and max are those of the samples; an outcome without
\* latency is counted in total_requests and failed_requests all the same.
\* Successes of 2 ms and 3 ms with a failure without latency give total 3,
\* failed 1, avg 5/2, min 2, max 3.
C35_SamplesHaveLatency ==
    [][StatsStep =>
          LET mine == OutcomesOf(stats'.pair)
              defined == {i \in mine : results[i].latency_ms # None}
              samples == stats'.latencies
          IN /\ Len(samples) <= Cardinality(defined)
             /\ \A k \in 1..Len(samples) :
                   \E i \in defined : results[i].latency_ms = samples[k]
             /\ stats'.total_requests = Cardinality(mine)
             /\ stats'.failed_requests =
                   Cardinality({i \in mine : ~results[i].success})
             /\ samples # <<>> =>
                   /\ stats'.avg_latency = [num |-> Sum(samples), den |-> Len(samples)]
                   /\ \A k \in 1..Len(samples) :
                         /\ stats'.min_latency <= Hundredths(samples[k])
                         /\ stats'.max_latency >= Hundredths(samples[k])
             /\ (/\ Cardinality(mine) = 3
                 /\ \E i, j, k \in mine :
                       /\ results[i].success /\ results[i].latency_ms = 2
                       /\ results[j].success /\ results[j].latency_ms = 3
                       /\ ~results[k].success /\ results[k].latency_ms = None) =>
                   /\ stats'.total_requests = 3
                   /\ stats'.failed_requests = 1
                   /\ stats'.avg_latency = [num |-> 5, den |-> 2]
                   /\ stats'.min_latency = Hundredths(2)
                   /\ stats'.max_latency = Hundredths(3)
      ]_vars

\* C35 witness: the statistics of two successes of 2 ms and 3 ms and a
\* failure without latency.
C35_Witness ==
    /\ HasStats
    /\ stats.total_requests = 3
    /\ stats.failed_requests = 1
    /\ Len(stats.latencies) = 2
    /\ stats.avg_latency = [num |-> 5, den |-> 2]
    /\ \E k \in OutcomesOf(stats.pair) : results[k].latency_ms = None

\* rs with its elements i and i + 1 in the other order
Swap(rs, i) ==
    [k \in 1..Len(rs) |->
        IF k = i THEN rs[i + 1] ELSE IF k = i + 1 THEN rs[i] ELSE rs[k]]

\* the statistics without the list of samples, whose order is that of
\* self.results
Summary(s) == IF s = NoStats THEN s ELSE [s EXCEPT !.latencies = <<>>]

\* C37: with any two neighbours of self.results recorded in the other order
\* (every order is reached by such exchanges) calculate_statistics gives,
\* for every pair, the same counts, success rate, avg, min, max and
\* percentiles.
C37_OrderIndependent ==
    \A pair \in Pairs :
       \A i \in 1..(Len(results) - 1) :
          Summary(StatisticsOf(Swap(results, i), pair)) = Summary(EndpointStats(pair))

\* C37 witness: statistics were computed for three outcomes of a pair that
\* were not recorded in the order of their latencies.
C37_Witness ==
    /\ HasStats
    /\ stats = EndpointStats(stats.pair)
    /\ Len(stats.latencies) = 3
    /\ stats.latencies[1] > stats.latencies[2]
    /\ stats.latencies[2] < stats.latencies[3]

-----------------------------------------------------------------------------
(* The backoff and the number of attempts, checked under SpecRetry *)

\* C36: exactly one sleep lies between two successive attempts of a request,
\* and the sleep after attempt k lasts retry_delay * 2^(k-1), whatever made
\* attempt k fail (HTTP 5xx, timeout, connection error or any other
\* exception).
C36_BackoffDoubles ==
    /\ \A k \in 1..Len(sleeps) : sleeps[k] = retry_delay * (2 ^ (k - 1))
    /\ Len(sleeps) = IF rpc = "loop" /\ last_event = "sleep"
                     THEN Len(attempts)
                     ELSE Max(Len(attempts) - 1, 0)

\* C36 witness: a timeout, then a connection error, then HTTP 503 with
\* retry_delay = 2: the request slept 2 and then 4.
C36_Witness ==
    /\ rpc = "done"
    /\ retry_delay = 2
    /\ Len(attempts) = 3
    /\ attempts[1].kind = "timeout"
    /\ attempts[2].kind = "client_error"
    /\ attempts[3] = [kind |-> "http", status |-> 503]
    /\ sleeps = <<2, 4>>

\* C39 (the claim as stated): every finished request made at least one
\* dispatch and its outcome has attempt >= 1, for every retry_attempts >= 0.
C39_AtLeastOneDispatch ==
    rpc = "done" => dispatches >= 1 /\ result.attempt >= 1

-----------------------------------------------------------------------------
(* The order in which the token bucket serves, checked under SpecTB *)

\* the step runs the loop body and takes tokens from the bucket: an
\* acquire() returns
GrantStep == since_update' = 0 /\ tokens' < Refill

\* the tasks that asked for more tokens than the bucket ever holds
Overdrawn == {t \in Acquirers : acquirers[t].pc # "idle"
                                /\ acquirers[t].tokens > burst_size}

\* C38: the lock queue only grows at its tail and shrinks at its head; a
\* sleeping acquire is the holder of the lock; tokens are granted only to
\* the holder of the lock, or to a caller that found the lock free; and an
\* acquire(n) with n > burst_size never returns, and from the moment it
\* holds the lock no acquire of any task returns: later callers queue
\* behind it.
C38_LockOrder ==
    /\ [](\A t \in Acquirers :
            acquirers[t].pc = "sleep" => lock # <<>> /\ Head(lock) = t)
    /\ [][ /\ \/ lock' = lock
              \/ lock # <<>> /\ lock' = Tail(lock)
              \/ \E t \in Acquirers : lock' = Append(lock, t)
           /\ GrantStep =>
                 \/ lock = <<>> /\ lock' = <<>>
                 \/ /\ lock # <<>>
                    /\ lock' = Tail(lock)
                    /\ acquirers[Head(lock)].pc # "idle"
                    /\ acquirers'[Head(lock)].pc = "idle"
           /\ \A t \in Acquirers :
                 acquirers[t].pc # "idle" /\ acquirers'[t].pc = "idle"
                    => GrantStep /\ Head(lock) = t
           /\ \A t \in Overdrawn :
                 /\ acquirers'[t].pc # "idle"
                 /\ acquirers[t].pc = "sleep" =>
                       /\ acquirers'[t].pc = "sleep"
                       /\ Head(lock') = t
                       /\ ~GrantStep
                       /\ \A u \in Acquirers \ {t} :
                             acquirers'[u].pc \in {acquirers[u].pc, "lock"}
         ]_vars

\* C38 witness: a task asked for 2 tokens of a bucket of burst_size 1; the
\* bucket is full again and the task's sleep is over, yet it holds the lock
\* and another task is queued behind it.
C38_Witness ==
    /\ burst_size = 1
    /\ tokens = Units(burst_size)
    /\ lock = <<1, 2>>
    /\ acquirers[1] = [pc |-> "sleep", tokens |-> 2, wait_time |-> 0]
    /\ acquirers[2].pc = "lock"
    /\ acquirers[2].tokens = 1

-----------------------------------------------------------------------------
(* The waiting of the sliding window, checked under SpecSW *)

\* C40 (the claim as stated): acquire() never goes round its loop again
\* without sleeping, also when the oldest timestamp is exactly window_size
\* old, and never returns without recording the call, also when
\* rate * window_size <= 0.
C40_NoSpinNoSilentAdmit ==
    /\ [](\A t \in Acquirers : window_tasks[t].pc # "spin")
    /\ [][AdmissionStep => Len(requests') = Len(RemoveOld(requests)) + 1]_vars

=============================================================================
